---- MODULE Spec2Model ----
(***************************************************************************)
(* A model of the wordChef text-analysis toolkit: the keyword / key-phrase *)
(* extraction of bloque_mejoras, its copies in wordChef.py and             *)
(* bloque_origina, the validating analysis operations of wordChef.py and   *)
(* the file-based SessionLogger of wordChef.py and cli.py.                 *)
(*                                                                         *)
(* Strings are sequences of characters (one-character atoms), so that      *)
(* strip, split, join, casefold and the regular-expression tokenizers are  *)
(* modelled by what they do.  Phrase scores are fixed-point numbers: the   *)
(* code's floats are multiples of 0.1, held here in ten-thousandths before *)
(* rounding and in thousandths after round(score, 3).                      *)
(***************************************************************************)
EXTENDS Integers, Sequences, FiniteSets, TLC

VARIABLES pc, op, args, res, files, logger, calls, clock, sessions, console, handlers

vars == <<pc, op, args, res, files, logger, calls, clock, sessions, console, handlers>>

\* ------------------------------------------------------------------ bounds
MaxPalabras == 3
MaxSpans == 3
MaxTop == 2
MaxOraciones == 4
MaxCalls == 2
MaxClock == 1
MaxSessions == 2
MaxPiezas == 2
MaxEnts == 2
MaxSelecciones == 2
MaxPulsaciones == 2

\* ------------------------------------------------------- generic helpers
Max(a, b) == IF a >= b THEN a ELSE b
Min(a, b) == IF a <= b THEN a ELSE b

SeqsUpTo(S, n) == UNION {[1..k -> S] : k \in 0..n}

RECURSIVE Flatten(_)
Flatten(ss) == IF ss = <<>> THEN <<>> ELSE Head(ss) \o Flatten(Tail(ss))

Rep(c, n) == [i \in 1..n |-> c]

Range(s) == {s[i] : i \in 1..Len(s)}

\* ------------------------------------------------------ Python built-ins
Whitespace == {" ", "NL"}
Punct == {"."}
Upper == {"S", "L"}
Letters == {"a", "b", "c", "d", "e", "f", "i", "l", "m", "n", "o", "p", "r", "s", "u", "v", "z"} \cup Upper
Digits == {"1", "3"}

\* str.casefold / str.lower on one character.
LowerChar(c) == CASE c = "S" -> "s" [] c = "L" -> "l" [] OTHER -> c

lower(s) == [i \in 1..Len(s) |-> LowerChar(s[i])]

\* unicodedata.normalize('NFKC', .): the ligature character LIG_FI is a
\* compatibility character that decomposes into the two letters f, i.
NFKC(s) ==
  LET width(i) == IF s[i] = "LIG_FI" THEN 2 ELSE 1
      before(i) == (i - 1) + Cardinality({j \in 1..(i - 1) : s[j] = "LIG_FI"})
      total == Len(s) + Cardinality({j \in 1..Len(s) : s[j] = "LIG_FI"})
  IN [k \in 1..total |->
        LET i == CHOOSE i \in 1..Len(s) : before(i) < k /\ k <= before(i) + width(i)
        IN IF s[i] # "LIG_FI" THEN s[i] ELSE IF k = before(i) + 1 THEN "f" ELSE "i"]

RECURSIVE lstrip(_)
lstrip(s) == IF s # <<>> /\ Head(s) \in Whitespace THEN lstrip(Tail(s)) ELSE s

RECURSIVE rstrip(_)
rstrip(s) ==
  IF s # <<>> /\ s[Len(s)] \in Whitespace THEN rstrip(SubSeq(s, 1, Len(s) - 1)) ELSE s

strip(s) == rstrip(lstrip(s))

\* Maximal runs of the characters of s that are in `keep`; a character of
\* `alone` ends the current run and is a run of its own; any other character
\* ends the current run.
Runs(s, keep, alone) ==
  LET n == Len(s)
      kept(i) == s[i] \notin alone /\ s[i] \in keep
      starts == {i \in 1..n : s[i] \in alone \/ (kept(i) /\ (i = 1 \/ ~kept(i - 1)))}
      endOf(i) == IF s[i] \in alone THEN i
                  ELSE CHOOSE j \in i..n : /\ \A k \in i..j : kept(k)
                                           /\ (j = n \/ ~kept(j + 1))
      nth(k) == CHOOSE i \in starts : Cardinality({q \in starts : q < i}) = k - 1
  IN [k \in 1..Cardinality(starts) |-> SubSeq(s, nth(k), endOf(nth(k)))]

AllChars == Letters \cup Digits \cup Whitespace \cup Punct \cup {"-", "_", "LIG_FI"}

\* str.split(): the maximal runs of non-whitespace characters.
split(s) == Runs(s, AllChars \ Whitespace, {})

\* sep.join(words)
RECURSIVE join(_, _)
join(sep, words) ==
  IF words = <<>> THEN <<>>
  ELSE IF Len(words) = 1 THEN Head(words)
  ELSE Head(words) \o sep \o join(sep, Tail(words))

\* seq[:k] for any integer k (a negative k drops the last -k elements).
SliceTo(s, k) ==
  IF k >= 0 THEN SubSeq(s, 1, Min(k, Len(s)))
  ELSE SubSeq(s, 1, Max(0, Len(s) + k))

\* Counter(seq).items(): (element, count) in order of first occurrence.
RECURSIVE CounterItems(_)
CounterItems(s) ==
  IF s = <<>> THEN <<>>
  ELSE LET init == SubSeq(s, 1, Len(s) - 1)
           x == s[Len(s)]
           prev == CounterItems(init)
       IN IF \E i \in 1..Len(prev) : prev[i][1] = x
          THEN [i \in 1..Len(prev) |->
                  IF prev[i][1] = x THEN <<x, prev[i][2] + 1>> ELSE prev[i]]
          ELSE Append(prev, <<x, 1>>)

\* Mutant of InsertDesc: an element goes before the elements of equal key, the
\* order a sort followed by a reversal gives.
InsertDescAntesDeIguales(sorted, x) ==
  LET k == Cardinality({i \in 1..Len(sorted) : sorted[i][2] > x[2]})
  IN SubSeq(sorted, 1, k) \o <<x>> \o SubSeq(sorted, k + 1, Len(sorted))

\* sorted(items, key=lambda x: x[1], reverse=True): a stable sort, equal keys
\* keep their original order.
InsertDesc(sorted, x) ==
  LET k == Cardinality({i \in 1..Len(sorted) : sorted[i][2] >= x[2]})
  IN SubSeq(sorted, 1, k) \o <<x>> \o SubSeq(sorted, k + 1, Len(sorted))

RECURSIVE SortedDescAcc(_, _)
SortedDescAcc(items, acc) ==
  IF items = <<>> THEN acc ELSE SortedDescAcc(Tail(items), InsertDesc(acc, Head(items)))

sorted_desc(items) == SortedDescAcc(items, <<>>)

\* Mutant of most_common: the first n items in insertion order, unsorted.
most_common_sin_orden(items, n) ==
  IF n <= 0 THEN <<>> ELSE SubSeq(items, 1, Min(n, Len(items)))

\* Counter.most_common(n) = heapq.nlargest(n, items, key=count): the first n
\* of the stable descending sort, and nothing when n <= 0.
most_common(items, n) ==
  IF n <= 0 THEN <<>> ELSE SubSeq(sorted_desc(items), 1, Min(n, Len(items)))

\* --------------------------------------------------- tokenizers and filters
\* The characters matched by \w in a Python regular expression.
WordChars == Letters \cup Digits \cup {"_"}

\* re.findall(r"[\w\-...]+", s): the maximal runs of word characters and hyphens.
findall_words(s) == Runs(s, WordChars \cup {"-"}, {})

\* re.fullmatch(r"[\w\-...]+", t)
fullmatch_word(t) == t # <<>> /\ \A i \in 1..Len(t) : t[i] \in WordChars \cup {"-"}

\* nltk.tokenize.word_tokenize: whitespace separates tokens and a punctuation
\* mark is a token of its own; a hyphenated word stays one token.
word_tokenize(s) == Runs(s, AllChars \ (Whitespace \cup Punct), Punct)

\* str.isalnum()
isalnum(t) == t # <<>> /\ \A i \in 1..Len(t) : t[i] \in Letters \cup Digits

\* stopwords.words('spanish'), the part of it over the model's alphabet.
SpanishStopwords == {<<"l", "a", "s">>, <<"e", "l">>, <<"d", "e">>}

\* The module-level cache _stopwords_es: the Spanish list when NLTK was
\* imported, the empty set otherwise.
stopwords_es(nltk) == IF nltk THEN SpanishStopwords ELSE {}

\* _normalize_text
normalize_text(text) == lower(NFKC(text))

\* `not texto or not texto.strip()`
IsBlank(texto) == texto = <<>> \/ strip(texto) = <<>>

\* tokens_filtered of bloque_mejoras, in the NLTK branch and in the fallback.
tokens_filtered_mejoras(texto, nltk) ==
  LET texto_norm == normalize_text(texto)
  IN IF nltk
     THEN SelectSeq(word_tokenize(texto_norm),
            LAMBDA t : fullmatch_word(t) /\ t \notin stopwords_es(nltk) /\ Len(t) > 2)
     ELSE SelectSeq(findall_words(texto_norm),
            LAMBDA t : t \notin stopwords_es(nltk) /\ Len(t) > 2)

\* tokens_filtrados of wordChef.py / bloque_origina (NLTK present).
tokens_filtrados(texto) ==
  SelectSeq(word_tokenize(lower(texto)),
    LAMBDA t : isalnum(t) /\ t \notin SpanishStopwords /\ Len(t) > 2)

\* ------------------------------------------------------------ spaCy docs
\* A token of a spaCy Doc, as far as the code reads it.
Tok(text, lemma, pos, stop, alpha) ==
  [text |-> text, lemma |-> lemma, pos |-> pos, is_stop |-> stop, is_alpha |-> alpha]

TSol == Tok(<<"S", "o", "l">>, <<"S", "o", "l">>, "NOUN", FALSE, TRUE)
TMar == Tok(<<"m", "a", "r">>, <<"m", "a", "r">>, "NOUN", FALSE, TRUE)
TPi == Tok(<<"p", "i">>, <<"p", "i">>, "NOUN", FALSE, TRUE)
TAzul == Tok(<<"a", "z", "u", "l">>, <<"a", "z", "u", "l">>, "ADJ", FALSE, TRUE)
TLas == Tok(<<"l", "a", "s">>, <<"e", "l">>, "DET", TRUE, TRUE)
TTres == Tok(<<"3">>, <<"3">>, "NUM", FALSE, FALSE)
TVer == Tok(<<"v", "e", "n">>, <<"v", "e", "r">>, "VERB", FALSE, TRUE)

\* A doc is a sequence of spans: a noun chunk (chunk = TRUE) or tokens outside
\* every noun chunk.
Span(chunk, toks) == [chunk |-> chunk, toks |-> toks]

Spans ==
  { Span(TRUE, <<TSol>>), Span(TRUE, <<TLas, TMar>>), Span(TRUE, <<TAzul, TSol>>),
    Span(TRUE, <<TPi>>), Span(TRUE, <<TLas, TTres>>), Span(TRUE, <<TPi, TPi>>),
    Span(TRUE, <<TAzul>>), Span(FALSE, <<TVer, TMar>>) }

Docs == SeqsUpTo(Spans, MaxSpans)

doc_tokens(doc) == Flatten([i \in 1..Len(doc) |-> doc[i].toks])

noun_chunks(doc) ==
  LET cs == SelectSeq(doc, LAMBDA sp : sp.chunk)
  IN [i \in 1..Len(cs) |-> cs[i].toks]

\* [token.lemma_.casefold() for token in doc if token.pos_ == pos and len(token.lemma_) > 2]
lemmas_of(doc, pos) ==
  LET ts == SelectSeq(doc_tokens(doc), LAMBDA t : t.pos = pos /\ Len(t.lemma) > 2)
  IN [i \in 1..Len(ts) |-> lower(ts[i].lemma)]

\* [t.text for t in doc if t.pos_ == pos]
texts_of(doc, pos) ==
  LET ts == SelectSeq(doc_tokens(doc), LAMBDA t : t.pos = pos)
  IN [i \in 1..Len(ts) |-> ts[i].text]

\* ------------------------------------------------------------ key phrases
\* The canonical phrase of one noun chunk: the lemmas of its tokens that are
\* neither stopwords nor non-alphabetic, casefolded and joined by one space.
phrase_lemmas(chunk) ==
  LET words == SelectSeq(chunk, LAMBDA t : ~t.is_stop /\ t.is_alpha)
  IN join(<<" ">>, [i \in 1..Len(words) |-> lower(words[i].lemma)])

\* Mutant of chunk_counted: the length test on the joined phrase is missing.
chunk_counted_sin_longitud(chunk) ==
  SelectSeq(chunk, LAMBDA t : ~t.is_stop /\ t.is_alpha) # <<>>

\* Whether the counting pass counts the chunk.
chunk_counted(chunk) ==
  /\ SelectSeq(chunk, LAMBDA t : ~t.is_stop /\ t.is_alpha) # <<>>
  /\ ~(Len(phrase_lemmas(chunk)) < 3)

\* phrase_counter.items() after the counting pass over doc.noun_chunks.
phrase_counter(doc) ==
  LET counted == SelectSeq(noun_chunks(doc), chunk_counted)
  IN CounterItems([i \in 1..Len(counted) |-> phrase_lemmas(counted[i])])

\* round(score, 3): from ten-thousandths to thousandths, to the nearest.
round3(x) == (x + 5) \div 10

\* Mutants of phrase_score: the word bonus counts every word, and the word
\* bonus is subtracted.
phrase_score_todas(freq, num_words, contains_top_noun) ==
  round3(freq * (10000 + 5000 * num_words) + 2000 * contains_top_noun)

phrase_score_resta(freq, num_words, contains_top_noun) ==
  round3(freq * (10000 - 5000 * (num_words - 1)) + 2000 * contains_top_noun)

\* Mutant of phrase_score: the top-noun bonus is 0.6, more than a word is
\* worth.
phrase_score_bono_alto(freq, num_words, contains_top_noun) ==
  round3(freq * (10000 + 5000 * (num_words - 1)) + 6000 * contains_top_noun)

\* freq * (1 + 0.5 * (num_words - 1)) + 0.2 * contains_top_noun, rounded,
\* in thousandths.
phrase_score(freq, num_words, contains_top_noun) ==
  round3(freq * (10000 + 5000 * (num_words - 1)) + 2000 * contains_top_noun)

contains_top_noun(phrase, sustantivos_top) ==
  IF \E w \in Range(split(phrase)) : w \in sustantivos_top THEN 1 ELSE 0

scored_phrases(doc, sustantivos_relevantes) ==
  LET pcnt == phrase_counter(doc)
      sustantivos_top == {sustantivos_relevantes[i][1] : i \in 1..Len(sustantivos_relevantes)}
  IN [i \in 1..Len(pcnt) |->
        <<pcnt[i][1],
          phrase_score(pcnt[i][2], Len(split(pcnt[i][1])),
                       contains_top_noun(pcnt[i][1], sustantivos_top))>>]

\* Mutant of frases_top: the candidates are cut without being sorted.
frases_top_sin_orden(scored, top_phrases) == SliceTo(scored, top_phrases)

\* sorted(scored_phrases, key=score, reverse=True)[:top_phrases]
frases_top(scored, top_phrases) == SliceTo(sorted_desc(scored), top_phrases)

None == [kind |-> "None"]

\* extraer_palabras_clave of bloque_mejoras.  nlp is None, a pipeline that
\* raises on the text, or a pipeline that returns a doc.
extraer_palabras_clave_mejoras(texto, nltk, nlp, top_n, top_phrases) ==
  IF IsBlank(texto) THEN None
  ELSE LET top_5 == most_common(CounterItems(tokens_filtered_mejoras(texto, nltk)), top_n)
           has_doc == nlp.kind = "doc"
           sustantivos == IF has_doc
                          THEN most_common(CounterItems(lemmas_of(nlp.doc, "NOUN")), top_n)
                          ELSE <<>>
           verbos == IF has_doc
                     THEN most_common(CounterItems(lemmas_of(nlp.doc, "VERB")), top_n)
                     ELSE <<>>
           frases == IF has_doc
                     THEN frases_top(scored_phrases(nlp.doc, sustantivos), top_phrases)
                     ELSE <<>>
       IN [kind |-> "dict", top_5_palabras |-> top_5, sustantivos |-> sustantivos,
           verbos |-> verbos, frases_clave |-> frases]

\* A fixed message: a string whose characters the code never reads.
Msg(m) == <<m>>

\* extraer_palabras_clave of wordChef.py (and its copy in wordChef_gui.py):
\* top_n is fixed to 5, there is no fallback tokenizer, and an exception of
\* the pipeline is not caught.
extraer_palabras_clave(texto, nltk, nlp) ==
  IF IsBlank(texto) THEN None
  ELSE IF nlp.kind = "raises" THEN [kind |-> "raised"]
  ELSE LET top_5 == IF nltk THEN most_common(CounterItems(tokens_filtrados(texto)), 5)
                    ELSE <<>>
           has_doc == nlp.kind = "doc"
           sustantivos == IF has_doc
                          THEN most_common(CounterItems(texts_of(nlp.doc, "NOUN")), 5)
                          ELSE <<>>
           verbos == IF has_doc
                     THEN most_common(CounterItems(texts_of(nlp.doc, "VERB")), 5)
                     ELSE <<>>
       IN [kind |-> "dict", top_5_palabras |-> top_5, sustantivos |-> sustantivos,
           verbos |-> verbos]

\* ----------------------------------------------------------- normalizador
TIva == Tok(<<"i", "v", "a">>, <<"i", "r">>, "VERB", FALSE, TRUE)
TCasa == Tok(<<"c", "a", "s", "a">>, <<"c", "a", "s", "a">>, "NOUN", FALSE, TRUE)
TsolMin == Tok(<<"s", "o", "l">>, <<"s", "o", "l">>, "NOUN", FALSE, TRUE)

\* CORRECCIONES_COMUNES and SUSTANTIVOS_NO_NEUTROS, the entries over the
\* model's alphabet.
CORRECCIONES_COMUNES == [w \in {<<"i", "v", "a">>} |-> <<"i", "b", "a">>]
SUSTANTIVOS_NO_NEUTROS == [w \in {<<"c", "a", "s", "a">>} |-> <<"l", "a", " ", "c", "a", "s", "a">>]

RECURSIVE corregidoAcc(_, _, _)
corregidoAcc(toks, i, out) ==
  IF i > Len(toks) THEN out
  ELSE LET palabra == lower(toks[i].text)
       IN IF palabra \in DOMAIN CORRECCIONES_COMUNES
          THEN corregidoAcc(toks, i + 1, Append(out, CORRECCIONES_COMUNES[palabra]))
          ELSE IF palabra \in DOMAIN SUSTANTIVOS_NO_NEUTROS
          THEN corregidoAcc(toks, i + 1, Append(out, SUSTANTIVOS_NO_NEUTROS[palabra]))
          ELSE IF i > 1 /\ palabra = lower(toks[i - 1].text)
          THEN corregidoAcc(toks, i + 1, out)
          ELSE corregidoAcc(toks, i + 1, Append(out, toks[i].text))

corregir_palabras(doc) == join(<<" ">>, corregidoAcc(doc_tokens(doc), 1, <<>>))

\* Mutant of sin_repeticiones: the words are compared without .lower().
sin_repeticiones_exactas(texto) ==
  LET palabras == split(texto)
      keep == {i \in 1..Len(palabras) : i = 1 \/ palabras[i] # palabras[i - 1]}
      F[i \in 0..Len(palabras)] ==
        IF i = 0 THEN <<>> ELSE IF i \in keep THEN Append(F[i - 1], palabras[i]) ELSE F[i - 1]
  IN join(<<" ">>, F[Len(palabras)])

\* " ".join of the words that differ, ignoring case, from the word before.
sin_repeticiones(texto) ==
  LET palabras == split(texto)
      keep == {i \in 1..Len(palabras) : i = 1 \/ lower(palabras[i]) # lower(palabras[i - 1])}
      F[i \in 0..Len(palabras)] ==
        IF i = 0 THEN <<>> ELSE IF i \in keep THEN Append(F[i - 1], palabras[i]) ELSE F[i - 1]
  IN join(<<" ">>, F[Len(palabras)])

normalizador_texto(texto, nlp) ==
  IF texto = <<>> \/ Len(strip(texto)) = 0 THEN None
  ELSE IF nlp.kind = "None"
  THEN [kind |-> "dict", original |-> texto, lematizado |-> Msg("(spaCy requerido)"),
        sin_repeticiones |-> sin_repeticiones(texto), corregido |-> Msg("(spaCy requerido)")]
  ELSE IF nlp.kind = "raises" THEN [kind |-> "raised"]
  ELSE LET toks == doc_tokens(nlp.doc)
       IN [kind |-> "dict", original |-> texto,
           lematizado |-> join(<<" ">>, [i \in 1..Len(toks) |-> toks[i].lemma]),
           sin_repeticiones |-> sin_repeticiones(texto),
           corregido |-> corregir_palabras(nlp.doc)]

\* ---------------------------------------------------------- resumen_simple
\* s.split(sep): the pieces between the occurrences of the character sep,
\* the empty ones included.
RECURSIVE SplitOnAcc(_, _, _, _)
SplitOnAcc(s, sep, cur, out) ==
  IF s = <<>> THEN Append(out, cur)
  ELSE IF Head(s) = sep THEN SplitOnAcc(Tail(s), sep, <<>>, Append(out, cur))
  ELSE SplitOnAcc(Tail(s), sep, Append(cur, Head(s)), out)

split_on(s, sep) == SplitOnAcc(s, sep, <<>>, <<>>)

\* A sentence of the summary: its text, and its tokens when spaCy made it.
Oracion(text, toks) == [text |-> text, toks |-> toks]

\* The sentences of the text: doc.sents with a pipeline, the stripped
\* non-empty pieces between full stops without one.
oraciones_de(texto, nlp) ==
  IF nlp.kind = "doc" THEN nlp.sents
  ELSE LET ps == SelectSeq(split_on(texto, "."), LAMBDA x : strip(x) # <<>>)
       IN [i \in 1..Len(ps) |-> Oracion(strip(ps[i]), <<>>)]

\* Mutant of puntaje200: the first sentence gets no bonus.
puntaje200_sin_bono(i, oracion, con_nlp) ==
  LET cuenta == IF con_nlp
                THEN Len(SelectSeq(oracion.toks, LAMBDA t : t.pos = "NOUN"))
                ELSE Len(SelectSeq(Runs(oracion.text, WordChars, {}),
                                   LAMBDA w : Len(w) > 2))
  IN 200 * cuenta - Len(oracion.text)

\* The score of sentence i (1-based here), times 200: the nouns (or the
\* words longer than 2 characters) minus length / 200, plus 1 for the first.
puntaje200(i, oracion, con_nlp) ==
  LET cuenta == IF con_nlp
                THEN Len(SelectSeq(oracion.toks, LAMBDA t : t.pos = "NOUN"))
                ELSE Len(SelectSeq(Runs(oracion.text, WordChars, {}),
                                   LAMBDA w : Len(w) > 2))
  IN 200 * cuenta - Len(oracion.text) + (IF i = 1 THEN 200 ELSE 0)

\* Mutant of indices_mejores: the chosen sentences stay in score order.
indices_por_puntaje(oraciones, n, con_nlp) ==
  LET puntuaciones == [i \in 1..Len(oraciones) |-> <<i, puntaje200(i, oraciones[i], con_nlp)>>]
      mejores == SliceTo(sorted_desc(puntuaciones), n)
  IN [k \in 1..Len(mejores) |-> mejores[k][1]]

\* sorted(indices) of the chosen sentences.
indices_mejores(oraciones, n, con_nlp) ==
  LET puntuaciones == [i \in 1..Len(oraciones) |-> <<i, puntaje200(i, oraciones[i], con_nlp)>>]
      mejores == SliceTo(sorted_desc(puntuaciones), n)
      elegidos == {mejores[k][1] : k \in 1..Len(mejores)}
  IN SelectSeq([i \in 1..Len(oraciones) |-> i], LAMBDA i : i \in elegidos)

Str(v) == [kind |-> "str", value |-> v]

resumen_simple(texto, n, nlp) ==
  IF IsBlank(texto) THEN Str(Msg("Error: texto vacio."))
  ELSE IF nlp.kind = "raises" THEN [kind |-> "raised"]
  ELSE LET oraciones == oraciones_de(texto, nlp)
           indices == indices_mejores(oraciones, n, nlp.kind = "doc")
       IN IF Len(oraciones) <= n THEN Str(texto)
          ELSE Str(join(<<" ">>, [k \in 1..Len(indices) |-> strip(oraciones[indices[k]].text)]))

\* ---------------------------------------------------------- sentimiento_es
\* Mutant of sentimiento_es: the label is tested for '3' first.
sentimiento_es_neutral_primero(texto, clasificador) ==
  IF IsBlank(texto)
  THEN [kind |-> "tuple", sentimiento |-> Msg("Error: texto vacio."), puntuacion |-> 0,
        etiqueta |-> <<>>]
  ELSE IF clasificador.kind = "None"
  THEN [kind |-> "tuple", sentimiento |-> Msg("Error: transformers no instalado."),
        puntuacion |-> 0, etiqueta |-> Msg("transformers missing")]
  ELSE IF clasificador.kind = "raises"
  THEN [kind |-> "tuple", sentimiento |-> Msg("Error"), puntuacion |-> 0,
        etiqueta |-> Msg("str(e)")]
  ELSE LET etiqueta == clasificador.label
           sentimiento == IF "3" \in Range(etiqueta) THEN Msg("Neutral")
                          ELSE IF "1" \in Range(etiqueta) \/ "2" \in Range(etiqueta)
                          THEN Msg("Negativo")
                          ELSE Msg("Positivo")
       IN [kind |-> "tuple", sentimiento |-> sentimiento,
           puntuacion |-> clasificador.score, etiqueta |-> etiqueta]

\* clasificador is None, a pipeline that raises, or one that answers with a
\* label and a score (in ten-thousandths).
sentimiento_es(texto, clasificador) ==
  IF IsBlank(texto)
  THEN [kind |-> "tuple", sentimiento |-> Msg("Error: texto vacio."), puntuacion |-> 0,
        etiqueta |-> <<>>]
  ELSE IF clasificador.kind = "None"
  THEN [kind |-> "tuple", sentimiento |-> Msg("Error: transformers no instalado."),
        puntuacion |-> 0, etiqueta |-> Msg("transformers missing")]
  ELSE IF clasificador.kind = "raises"
  THEN [kind |-> "tuple", sentimiento |-> Msg("Error"), puntuacion |-> 0,
        etiqueta |-> Msg("str(e)")]
  ELSE LET etiqueta == clasificador.label
           sentimiento == IF "1" \in Range(etiqueta) \/ "2" \in Range(etiqueta)
                          THEN Msg("Negativo")
                          ELSE IF "3" \in Range(etiqueta) THEN Msg("Neutral")
                          ELSE Msg("Positivo")
       IN [kind |-> "tuple", sentimiento |-> sentimiento,
           puntuacion |-> clasificador.score, etiqueta |-> etiqueta]

\* ------------------------------------------------------ extraer_entidades
\* The code point of a character (the characters entity texts are made of).
ord(c) ==
  CASE c = "/" -> 47 [] c = "1" -> 49 [] c = "3" -> 51 [] c = "L" -> 76 [] c = "S" -> 83
    [] c = "a" -> 97 [] c = "l" -> 108 [] c = "m" -> 109 [] c = "o" -> 111 [] c = "r" -> 114
    [] c = "u" -> 117 [] c = "z" -> 122

\* a < b for two str values: lexicographic by code point.
StrLess(a, b) ==
  \E k \in 1..(Min(Len(a), Len(b)) + 1) :
    /\ \A i \in 1..(k - 1) : a[i] = b[i]
    /\ IF k > Len(a) THEN k <= Len(b)
       ELSE k <= Len(b) /\ ord(a[k]) < ord(b[k])

\* sorted(set(xs))
sorted_set(xs) ==
  LET S == Range(xs)
  IN [k \in 1..Cardinality(S) |->
        CHOOSE x \in S : Cardinality({y \in S : StrLess(y, x)}) = k - 1]

\* One entity of doc.ents.
Ent(text, label) == [text |-> text, label |-> label]

\* [ent.text for ent in doc.ents if ent.label_ == tipo]
extraer(ents, tipo) ==
  LET es == SelectSeq(ents, LAMBDA e : e.label = tipo)
  IN [i \in 1..Len(es) |-> es[i].text]

Categorias ==
  <<[clave |-> "Personas", tipo |-> "PER"], [clave |-> "Lugares", tipo |-> "LOC"],
    [clave |-> "Empresas", tipo |-> "ORG"], [clave |-> "Fechas", tipo |-> "DATE"],
    [clave |-> "Cantidades", tipo |-> "QUANTITY"]>>

\* extraer_entidades(texto, nlp): an exception of the pipeline is not caught.
extraer_entidades(texto, nlp) ==
  IF nlp.kind = "None" THEN [kind |-> "dict", items |-> <<>>]
  ELSE IF nlp.kind = "raises" THEN [kind |-> "raised"]
  ELSE [kind |-> "dict",
        items |-> [i \in 1..Len(Categorias) |->
                     [clave |-> Categorias[i].clave,
                      valor |-> [kind |-> "list",
                                 elems |-> sorted_set(extraer(nlp.ents, Categorias[i].tipo))]]]]

\* ------------------------------------------------------- regex extractors
\* A regular expression without capture groups, as the tree re.compile builds.
Cls(set) == [re |-> "cls", set |-> set]
Cat(parts) == [re |-> "cat", parts |-> parts]
Alt(left, right) == [re |-> "alt", left |-> left, right |-> right]
Quant(r, min, max) == [re |-> "quant", r |-> r, min |-> min, max |-> max]
Opt(r) == Quant(r, 0, 1)
WordBoundary == [re |-> "b"]
Lit(str) == Cat([i \in 1..Len(str) |-> Cls({str[i]})])
Unbounded == 99

\* \b at position i of s: exactly one of s[i-1], s[i] is a word character.
IsBoundary(s, i) ==
  LET word(k) == k >= 1 /\ k <= Len(s) /\ s[k] \in WordChars
  IN word(i - 1) # word(i)

\* The positions where a match of r that starts at position i of s can end
\* (the index after its last character), in the order the backtracking
\* matcher tries them: quantifiers are greedy, alternatives left to right.
RECURSIVE Ends(_, _, _)
RECURSIVE EndsFrom(_, _, _)
Ends(r, s, i) ==
  CASE r.re = "cls" -> IF i <= Len(s) /\ s[i] \in r.set THEN <<i + 1>> ELSE <<>>
    [] r.re = "b" -> IF IsBoundary(s, i) THEN <<i>> ELSE <<>>
    [] r.re = "alt" -> Ends(r.left, s, i) \o Ends(r.right, s, i)
    [] r.re = "cat" -> IF r.parts = <<>> THEN <<i>>
                       ELSE EndsFrom(Cat(Tail(r.parts)), s, Ends(Head(r.parts), s, i))
    [] r.re = "quant" ->
         (IF r.max = 0 THEN <<>>
          ELSE EndsFrom(Quant(r.r, Max(r.min - 1, 0), r.max - 1), s,
                        SelectSeq(Ends(r.r, s, i), LAMBDA e : e > i)))
         \o (IF r.min = 0 THEN <<i>> ELSE <<>>)

EndsFrom(r, s, starts) ==
  IF starts = <<>> THEN <<>>
  ELSE Ends(r, s, Head(starts)) \o EndsFrom(r, s, Tail(starts))

\* re.findall(pattern, s): the non-overlapping matches, scanning from the left.
RECURSIVE findall_from(_, _, _)
findall_from(r, s, i) ==
  IF i > Len(s) + 1 THEN <<>>
  ELSE LET ends == Ends(r, s, i)
       IN IF ends = <<>> THEN findall_from(r, s, i + 1)
          ELSE <<SubSeq(s, i, Head(ends) - 1)>>
               \o findall_from(r, s, IF Head(ends) > i THEN Head(ends) ELSE i + 1)

findall(r, s) == findall_from(r, s, 1)

Sep == Cls({"/", "-"})
D == Cls(Digits)
DotComma == Cls({".", ","})

\* Mutant of PATRON_FECHAS: the year group is optional.
PATRON_FECHAS_sin_ano ==
  Cat(<<WordBoundary, Quant(D, 1, 2), Sep, Quant(D, 1, 2), Opt(Cat(<<Sep, Quant(D, 2, 4)>>)),
        WordBoundary>>)

\* \b(?:\d{1,2}[/-]\d{1,2}[/-]\d{2,4}|\d{4}[/-]\d{1,2}[/-]\d{1,2})\b
PATRON_FECHAS ==
  Cat(<<WordBoundary,
        Alt(Cat(<<Quant(D, 1, 2), Sep, Quant(D, 1, 2), Sep, Quant(D, 2, 4)>>),
            Cat(<<Quant(D, 4, 4), Sep, Quant(D, 1, 2), Sep, Quant(D, 1, 2)>>)),
        WordBoundary>>)

\* \b(?:E?\s?\d{1,3}(?:[\.,]\d{3})*(?:[\.,]\d+)?\s?(?:E|euros|USD|\$)|\$\d+(?:\.\d+)?\b)
\* where E is the euro sign, the one character EUR of the model.
PATRON_DINERO ==
  Cat(<<WordBoundary,
        Alt(Cat(<<Opt(Cls({"EUR"})), Opt(Cls(Whitespace)), Quant(D, 1, 3),
                  Quant(Cat(<<DotComma, Quant(D, 3, 3)>>), 0, Unbounded),
                  Opt(Cat(<<DotComma, Quant(D, 1, Unbounded)>>)),
                  Opt(Cls(Whitespace)),
                  Alt(Cls({"EUR"}), Alt(Lit(<<"e", "u", "r", "o", "s">>),
                      Alt(Lit(<<"U", "S", "D">>), Cls({"$"}))))>>),
            Cat(<<Cls({"$"}), Quant(D, 1, Unbounded),
                  Opt(Cat(<<Cls({"."}), Quant(D, 1, Unbounded)>>)), WordBoundary>>))>>)

\* \b[A-Za-z0-9._%+-]+@[A-Za-z0-9.-]+\.[A-Za-z]{2,}\b
PATRON_EMAIL ==
  Cat(<<WordBoundary,
        Quant(Cls(Letters \cup Digits \cup {".", "_", "%", "+", "-"}), 1, Unbounded),
        Cls({"@"}),
        Quant(Cls(Letters \cup Digits \cup {".", "-"}), 1, Unbounded),
        Cls({"."}), Quant(Cls(Letters), 2, Unbounded), WordBoundary>>)

encontrar_fechas(texto) == findall(PATRON_FECHAS, texto)
encontrar_dinero(texto) == findall(PATRON_DINERO, texto)
encontrar_correos(texto) == findall(PATRON_EMAIL, texto)

\* ------------------------------------------------------------ SessionLogger
TruncLen == 100
SnippetLen == 120

\* The lines a logger writes, one record per line.
Rule(ch) == [ln |-> "rule", ch |-> ch]
Blank == [ln |-> "blank"]

\* _write_header / _escribir_encabezado: the content of a new session file.
\* The logging-based logger of bloque_mejoras opens its file empty.
write_header(cls, now) ==
  IF cls = "mejoras" THEN <<>>
  ELSE <<Rule("="), [ln |-> "title", cls |-> IF cls = "original" THEN "original" ELSE "wordChef",
                     time |-> now], Rule("="), Blank>>

\* entrada[:100] + ('...' if len(entrada) > 100 else '')
entrada_truncada(entrada) ==
  SubSeq(entrada, 1, Min(TruncLen, Len(entrada)))
    \o (IF Len(entrada) > TruncLen THEN <<".", ".", ".">> ELSE <<>>)

\* The lines of a result: a dict key by key, a list value item by item.
RECURSIVE resultado_lines(_, _)
resultado_lines(resultado, cls) ==
  IF resultado.kind = "dict"
  THEN IF resultado.items = <<>> THEN <<>>
       ELSE LET it == Head(resultado.items)
                resto == resultado_lines([resultado EXCEPT !.items = Tail(@)], cls)
            IN <<[ln |-> "clave", clave |-> it.clave]>>
               \o (IF it.valor.kind = "list"
                   THEN [i \in 1..Len(it.valor.elems) |-> [ln |-> "item", item |-> it.valor.elems[i]]]
                   ELSE <<[ln |-> "valor", valor |-> it.valor.v,
                           indent |-> IF cls = "original" THEN 3 ELSE 4]>>)
               \o resto
  ELSE <<[ln |-> "resultado", resultado |-> resultado]>>

\* SessionLogger.log (wordChef.py, wordChef_gui.py, bloque_origina) and
\* SessionLogger.registrar (cli.py): the lines of one entry.
log_lines(cls, now, tipo, entrada, resultado) ==
  <<[ln |-> "stamp", time |-> now, tipo |-> tipo], Rule("-"),
    [ln |-> "entrada", text |-> entrada_truncada(entrada)], Blank>>
  \o resultado_lines(resultado, cls)
  \o <<Blank, Rule("="), Blank>>

\* SessionLogger.registrar_patron (cli.py): the lines of one pattern entry.
patron_lines(now, tipo_patron, coincidencias) ==
  <<[ln |-> "stamp", time |-> now, tipo |-> "Busqueda de patrones"], Rule("-"),
    [ln |-> "patron", tipo |-> tipo_patron,
     resultado |-> IF coincidencias # <<>> THEN [kind |-> "list", elems |-> coincidencias]
                   ELSE [kind |-> "scalar", v |-> Msg("Ninguno encontrado")]],
    Blank, Rule("="), Blank>>

\* SessionLogger.log / error of bloque_mejoras: one formatted line.
logging_line(now, level, action, snippet, result) ==
  <<[ln |-> "logging", time |-> now, level |-> level, action |-> action,
     snippet |-> SubSeq(snippet, 1, Min(SnippetLen, Len(snippet))), result |-> result]>>

\* Mutant of append_file: the file is opened with mode 'w'.
append_file_truncando(fs, filename, lines) ==
  [f \in DOMAIN fs \cup {filename} |-> IF f = filename THEN lines ELSE fs[f]]

\* open(filename, 'a').write(lines)
append_file(fs, filename, lines) ==
  IF filename \in DOMAIN fs THEN [fs EXCEPT ![filename] = @ \o lines]
  ELSE [f \in DOMAIN fs \cup {filename} |-> IF f = filename THEN lines ELSE fs[f]]

\* open(filename, 'w').write(lines)
write_file(fs, filename, lines) ==
  [f \in DOMAIN fs \cup {filename} |-> IF f = filename THEN lines ELSE fs[f]]

\* Mutant of add_handler: the test `if not self.logger.handlers` is missing.
add_handler_siempre(hs, name, filename) ==
  [n \in DOMAIN hs \cup {name} |->
     IF n = name THEN (IF n \in DOMAIN hs THEN hs[n] ELSE <<>>) \o <<filename>> ELSE hs[n]]

\* SessionLogger.__init__ of bloque_mejoras: logging.getLogger(name) hands
\* back the one logger of that name, which gets a file handler only if it
\* has none.  hs: the handlers (the files they write) of each named logger.
add_handler(hs, name, filename) ==
  IF name \in DOMAIN hs /\ hs[name] # <<>> THEN hs
  ELSE [n \in DOMAIN hs \cup {name} |-> IF n = name THEN <<filename>> ELSE hs[n]]

\* Logger.info / Logger.error: every handler of the logger writes the line.
RECURSIVE emit(_, _, _)
emit(fs, hs, line) ==
  IF hs = <<>> THEN fs ELSE emit(append_file(fs, Head(hs), line), Tail(hs), line)

\* SessionLogger(): the file is named by the second of its construction.
new_logger(cls, now) == [cls |-> cls, filename |-> now]

\* The methods each SessionLogger class defines besides its constructor and
\* its header writer.
Methods(cls) ==
  CASE cls = "cli" -> {"registrar", "registrar_patron"}
    [] cls = "mejoras" -> {"log", "error"}
    [] OTHER -> {"log"}

\* A call made on the logger, as the session remembers it.
LogCall(now, tipo, entrada, resultado) ==
  [method |-> "log", time |-> now, tipo |-> tipo, entrada |-> entrada, resultado |-> resultado]

PatronCall(now, tipo, coincidencias) ==
  [method |-> "registrar_patron", time |-> now, tipo |-> tipo, coincidencias |-> coincidencias]

\* The file after the logger made the calls cs, in order.
RECURSIVE write_calls(_, _, _)
write_calls(fs, lg, cs) ==
  IF cs = <<>> THEN fs
  ELSE LET c == Head(cs)
           lines == IF c.method = "registrar_patron"
                    THEN patron_lines(c.time, c.tipo, c.coincidencias)
                    ELSE log_lines(lg.cls, c.time, c.tipo, c.entrada, c.resultado)
       IN write_calls(append_file(fs, lg.filename, lines), lg, Tail(cs))

Lista(elems) == [kind |-> "list", elems |-> elems]
Escalar(v) == [kind |-> "scalar", v |-> v]
Item(clave, valor) == [clave |-> clave, valor |-> valor]
Dict(items) == [kind |-> "dict", items |-> items]

\* The keyword result as the dict the logger walks.
dict_palabras(r) ==
  Dict(<<Item("top_5_palabras", Lista(r.top_5_palabras)),
         Item("sustantivos", Lista(r.sustantivos)),
         Item("verbos", Lista(r.verbos))>>)

\* ------------------------------------------------------------------ inputs
Vocabulario ==
  { <<"l", "a", "s">>, <<"S", "o", "l">>, <<"s", "o", "l">>, <<"p", "i">>, <<"a", "-", "b">> }

Blancos == { <<>>, <<" ">>, <<" ", "NL">> }

\* Texts with punctuation, a compatibility character and outer whitespace.
TextosExtra ==
  { <<"s", "o", "l", ".", " ", "S", "o", "l">>, <<"LIG_FI", "n", " ", "p", "i", ".">>,
    <<" ", "l", "a", "s", ".", "a", "_", "3", "NL">> }

Textos ==
  { join(<<" ">>, ws) : ws \in SeqsUpTo(Vocabulario, MaxPalabras) \ {<<>>} } \cup TextosExtra

TextoDemo == <<"S", "o", "l", " ", "l", "a", "s", " ", "m", "a", "r">>

\* Texts of 101 and 121 characters, longer than the snippets the loggers keep.
TextosLargos ==
  { <<"S", "o", "l", " ">> \o Rep("a", n - 5) \o <<"z">> : n \in {TruncLen + 1, SnippetLen + 1} }

NoNlp == [kind |-> "None"]
NlpRaises == [kind |-> "raises"]
NlpDoc(doc, sents) == [kind |-> "doc", doc |-> doc, sents |-> sents]

TopRange == -1..MaxTop

ArgsMejoras ==
  [texto : Textos \cup Blancos, nltk : BOOLEAN, nlp : {NoNlp},
   top_n : TopRange, top_phrases : {6}]
  \cup
  [texto : {TextoDemo}, nltk : {TRUE},
   nlp : {NlpRaises} \cup {NlpDoc(d, <<>>) : d \in Docs},
   top_n : {-1, 1, 5}, top_phrases : TopRange]
  \cup
  [texto : {<<" ">>}, nltk : {TRUE}, nlp : {NlpDoc(<<Span(TRUE, <<TSol>>)>>, <<>>)},
   top_n : {5}, top_phrases : {6}]
  \cup
  [texto : TextosLargos, nltk : {TRUE}, nlp : {NoNlp}, top_n : {5}, top_phrases : {6}]

ArgsPalabras ==
  [texto : Textos \cup Blancos, nltk : BOOLEAN, nlp : {NoNlp}]
  \cup
  [texto : {TextoDemo}, nltk : {TRUE},
   nlp : {NlpRaises} \cup {NlpDoc(d, <<>>) : d \in Docs}]

ArgsOriginal ==
  [texto : Textos \cup Blancos \cup TextosLargos, nltk : {TRUE}, nlp : {NoNlp}]
  \cup
  [texto : {TextoDemo, <<" ">>}, nltk : {TRUE},
   nlp : {NlpDoc(d, <<>>) : d \in SeqsUpTo(Spans, 1)}]

NormDocs == SeqsUpTo({Span(FALSE, <<t>>) : t \in {TIva, TCasa, TSol, TsolMin}}, 2)

ArgsNormalizador ==
  [texto : Textos \cup Blancos, nlp : {NoNlp}]
  \cup
  [texto : {TextoDemo, <<" ">>}, nlp : {NlpRaises} \cup {NlpDoc(d, <<>>) : d \in NormDocs}]

Frases == { <<"s", "o", "l">>, <<"e", "l", " ", "m", "a", "r">>, <<"p", "i">> }

TextosResumen ==
  { join(<<".", " ">>, fs) : fs \in SeqsUpTo(Frases, MaxOraciones) \ {<<>>} }

Sents ==
  { Oracion(<<"S", "o", "l">>, <<TSol>>), Oracion(<<"l", "a", "s", " ", "m", "a", "r">>, <<TLas, TMar>>),
    Oracion(<<"v", "e", "n">>, <<TVer>>) }

ResumenN == 3

ArgsResumen ==
  [texto : TextosResumen \cup Blancos, n : {ResumenN}, nlp : {NoNlp}]
  \cup
  [texto : {TextoDemo, <<" ">>}, n : {ResumenN},
   nlp : {NlpRaises} \cup {NlpDoc(<<>>, ss) : ss \in SeqsUpTo(Sents, MaxOraciones)}]

Etiquetas ==
  { <<"1", " ", "s", "t", "a", "r">>, <<"2", " ", "s", "t", "a", "r", "s">>,
    <<"3", " ", "s", "t", "a", "r", "s">>, <<"4", " ", "s", "t", "a", "r", "s">>,
    <<"5", " ", "s", "t", "a", "r", "s">>, <<"1", "3">>, <<>> }

Clasificadores ==
  {[kind |-> "None"], [kind |-> "raises"]}
  \cup {[kind |-> "ok", label |-> l, score |-> sc] : l \in Etiquetas, sc \in {0, 4321, 10000}}

ArgsSentimiento == [texto : Blancos \cup {TextoDemo}, clasificador : Clasificadores]

\* Texts for the regex extractors: up to MaxPiezas pieces written one after
\* the other (dates, amounts, addresses, and fragments of them).
PiezasPatron ==
  { <<"1", "/", "3", "/", "3", "3">>, <<"1", "/", "3">>, <<"1", "3">>, <<" ", "EUR">>,
    <<"$", "1", "3">>, <<"a", "@", "b", ".", "e", "s">>, <<"a", "@", "b">>, <<"a">>, <<" ">> }

TextosPatron == { join(<<>>, ps) : ps \in SeqsUpTo(PiezasPatron, MaxPiezas) }

ArgsPatron == [texto : TextosPatron]

\* texto_prueba of test_logging.py, to scale: a date, an e-mail address and
\* an amount followed by the euro sign.
texto_prueba ==
  <<"a", " ", "1", "/", "3", "/", "3", "3", " ", "a", "@", "b", ".", "e", "s", ".", " ",
    "1", "3", "EUR", ".">>

ArgsTest == [texto : {texto_prueba}]

\* The entities a pipeline may find, and the documents made of them.
Ents ==
  { Ent(<<"S", "o", "l">>, "LOC"), Ent(<<"m", "a", "r">>, "LOC"), Ent(<<"L", "u", "z">>, "PER"),
    Ent(<<"S", "o", "l">>, "ORG"), Ent(<<"3">>, "QUANTITY"),
    Ent(<<"1", "/", "3", "/", "3", "3">>, "DATE"), Ent(<<"m", "a", "r">>, "MISC") }

NlpEnts(ents) == [kind |-> "doc", doc |-> <<>>, sents |-> <<>>, ents |-> ents]

ArgsEntidades ==
  [texto : {TextoDemo, <<>>},
   nlp : {NoNlp, NlpRaises} \cup {NlpEnts(es) : es \in SeqsUpTo(Ents, MaxEnts)}]

Ops ==
  { "mejoras.extraer_palabras_clave", "wordChef.extraer_palabras_clave",
    "original.extraer_palabras_clave", "wordChef.normalizador_texto",
    "wordChef.resumen_simple", "wordChef.sentimiento_es",
    "wordChef.encontrar_fechas", "wordChef.encontrar_dinero", "wordChef.encontrar_correos",
    "wordChef.extraer_entidades", "test_logging" }

ArgsOf(o) ==
  CASE o = "mejoras.extraer_palabras_clave" -> ArgsMejoras
    [] o = "wordChef.extraer_palabras_clave" -> ArgsPalabras
    [] o = "original.extraer_palabras_clave" -> ArgsOriginal
    [] o = "wordChef.normalizador_texto" -> ArgsNormalizador
    [] o = "wordChef.resumen_simple" -> ArgsResumen
    [] o = "wordChef.sentimiento_es" -> ArgsSentimiento
    [] o \in {"wordChef.encontrar_fechas", "wordChef.encontrar_dinero",
              "wordChef.encontrar_correos"} -> ArgsPatron
    [] o = "wordChef.extraer_entidades" -> ArgsEntidades
    [] o = "test_logging" -> ArgsTest

\* The module whose global logger the operation's module created on import.
ModuleOf(o) ==
  CASE o = "mejoras.extraer_palabras_clave" -> "mejoras"
    [] o = "original.extraer_palabras_clave" -> "original"
    [] OTHER -> "wordChef"

\* ------------------------------------------------------------- analysis run
\* One run: the module is imported (its logger is constructed, the session
\* file holds the header) and the operation is called once on the input.
Init ==
  /\ pc = "call"
  /\ op \in Ops
  /\ args \in ArgsOf(op)
  /\ res = None
  /\ clock = 0
  /\ logger = new_logger(ModuleOf(op), 0)
  /\ files = write_file(<<>>, 0, write_header(ModuleOf(op), 0))
  /\ calls = <<>>
  /\ sessions = <<logger>>
  /\ console = <<>>
  /\ handlers = IF ModuleOf(op) = "mejoras" THEN add_handler(<<>>, 0, 0) ELSE <<>>

Call_extraer_palabras_clave_mejoras ==
  /\ pc = "call" /\ op = "mejoras.extraer_palabras_clave"
  /\ LET r == extraer_palabras_clave_mejoras(args.texto, args.nltk, args.nlp,
                                             args.top_n, args.top_phrases)
         err == IF ~IsBlank(args.texto) /\ args.nlp.kind = "raises"
                THEN logging_line(clock, "ERROR", "Error procesando con spaCy", <<>>, None)
                ELSE <<>>
         info == IF r.kind = "dict"
                 THEN logging_line(clock, "INFO", "Extraccion de Palabras Clave (mejorada)",
                                   SubSeq(args.texto, 1, Min(SnippetLen, Len(args.texto))), r)
                 ELSE <<>>
     IN /\ res' = r
        /\ files' = append_file(files, logger.filename, err \o info)
  /\ pc' = "done"
  /\ UNCHANGED <<op, args, logger, sessions, console, calls, clock, handlers>>

Call_extraer_palabras_clave ==
  /\ pc = "call" /\ op = "wordChef.extraer_palabras_clave"
  /\ res' = extraer_palabras_clave(args.texto, args.nltk, args.nlp)
  /\ pc' = "done"
  /\ UNCHANGED <<op, args, files, logger, sessions, console, calls, clock, handlers>>

Call_extraer_palabras_clave_original ==
  /\ pc = "call" /\ op = "original.extraer_palabras_clave"
  /\ LET r == extraer_palabras_clave(args.texto, args.nltk, args.nlp)
     IN /\ res' = r
        /\ IF r.kind = "dict"
           THEN /\ files' = append_file(files, logger.filename,
                              log_lines(logger.cls, clock, "Extraccion de Palabras Clave",
                                        args.texto, dict_palabras(r)))
                /\ calls' = Append(calls, [method |-> "log", time |-> clock,
                                           tipo |-> "Extraccion de Palabras Clave",
                                           entrada |-> args.texto,
                                           resultado |-> dict_palabras(r)])
           ELSE UNCHANGED <<files, calls>>
  /\ pc' = "done"
  /\ UNCHANGED <<op, args, logger, sessions, console, clock, handlers>>

Call_normalizador_texto ==
  /\ pc = "call" /\ op = "wordChef.normalizador_texto"
  /\ res' = normalizador_texto(args.texto, args.nlp)
  /\ pc' = "done"
  /\ UNCHANGED <<op, args, files, logger, sessions, console, calls, clock, handlers>>

Call_resumen_simple ==
  /\ pc = "call" /\ op = "wordChef.resumen_simple"
  /\ res' = resumen_simple(args.texto, args.n, args.nlp)
  /\ pc' = "done"
  /\ UNCHANGED <<op, args, files, logger, sessions, console, calls, clock, handlers>>

Call_sentimiento_es ==
  /\ pc = "call" /\ op = "wordChef.sentimiento_es"
  /\ res' = sentimiento_es(args.texto, args.clasificador)
  /\ pc' = "done"
  /\ UNCHANGED <<op, args, files, logger, sessions, console, calls, clock, handlers>>

Call_encontrar_fechas ==
  /\ pc = "call" /\ op = "wordChef.encontrar_fechas"
  /\ res' = Lista(encontrar_fechas(args.texto))
  /\ pc' = "done"
  /\ UNCHANGED <<op, args, files, logger, sessions, console, calls, clock, handlers>>

Call_encontrar_dinero ==
  /\ pc = "call" /\ op = "wordChef.encontrar_dinero"
  /\ res' = Lista(encontrar_dinero(args.texto))
  /\ pc' = "done"
  /\ UNCHANGED <<op, args, files, logger, sessions, console, calls, clock, handlers>>

Call_encontrar_correos ==
  /\ pc = "call" /\ op = "wordChef.encontrar_correos"
  /\ res' = Lista(encontrar_correos(args.texto))
  /\ pc' = "done"
  /\ UNCHANGED <<op, args, files, logger, sessions, console, calls, clock, handlers>>

Call_extraer_entidades ==
  /\ pc = "call" /\ op = "wordChef.extraer_entidades"
  /\ res' = extraer_entidades(args.texto, args.nlp)
  /\ console' = IF args.nlp.kind = "None"
                THEN Append(console, Msg("Aviso: spaCy no disponible"))
                ELSE console
  /\ pc' = "done"
  /\ UNCHANGED <<op, args, files, logger, sessions, calls, clock, handlers>>

\* test_logging.py run as a script: wordChef is imported (its logger is
\* constructed), the three patterns are searched in texto_prueba, the three
\* registrar_patron calls are made on wordChef's logger, and the completion
\* message is printed.  A method the logger's class does not define ends
\* the script with AttributeError at the first call.
Run_test_logging ==
  /\ pc = "call" /\ op = "test_logging"
  /\ LET llamadas == <<PatronCall(clock, "Fechas", encontrar_fechas(args.texto)),
                       PatronCall(clock, "Dinero", encontrar_dinero(args.texto)),
                       PatronCall(clock, "Correos", encontrar_correos(args.texto))>>
     IN IF "registrar_patron" \in Methods(logger.cls)
        THEN /\ calls' = calls \o llamadas
             /\ files' = write_calls(files, logger, llamadas)
             /\ console' = Append(console, Msg("Logging completado!"))
             /\ res' = None
        ELSE /\ res' = [kind |-> "raised", error |-> "AttributeError"]
             /\ UNCHANGED <<calls, files, console>>
  /\ pc' = "done"
  /\ UNCHANGED <<op, args, logger, sessions, clock, handlers>>

Next ==
  \/ Call_extraer_palabras_clave_mejoras
  \/ Call_extraer_palabras_clave
  \/ Call_extraer_palabras_clave_original
  \/ Call_normalizador_texto
  \/ Call_resumen_simple
  \/ Call_sentimiento_es
  \/ Call_encontrar_fechas
  \/ Call_encontrar_dinero
  \/ Call_encontrar_correos
  \/ Call_extraer_entidades
  \/ Run_test_logging

Spec == Init /\ [][Next]_vars

\* ------------------------------------------------------------ logging run
\* One SessionLogger of wordChef.py (log) or cli.py (registrar,
\* registrar_patron), constructed at second 0, and the calls made on it.
EntradasLog == { <<"a">> \o Rep("x", n - 2) \o <<"z">> : n \in {3, TruncLen, TruncLen + 1} }

ResultadosLog ==
  { Dict(<<Item("Fechas", Lista(<<"15/03/1995", "1/1/2000">>)), Item("Confianza", Escalar("0.9876"))>>),
    Str(Msg("Resumen: ...")) }

CoincidenciasLog == { <<>>, <<"juan@ejemplo.com">> }

InitLogger ==
  /\ pc = "logger"
  /\ op = "none"
  /\ args = None
  /\ res = None
  /\ clock = 0
  /\ logger \in {new_logger(cls, 0) : cls \in {"wordChef", "cli"}}
  /\ files = write_file(<<>>, 0, write_header(logger.cls, 0))
  /\ calls = <<>>
  /\ sessions = <<logger>>
  /\ console = <<>>
  /\ handlers = <<>>

Log ==
  /\ pc = "logger" /\ logger.cls = "wordChef" /\ Len(calls) < MaxCalls
  /\ \E entrada \in EntradasLog, resultado \in ResultadosLog :
       /\ files' = append_file(files, logger.filename,
                     log_lines(logger.cls, clock, "Normalizador", entrada, resultado))
       /\ calls' = Append(calls, [method |-> "log", time |-> clock, tipo |-> "Normalizador",
                                  entrada |-> entrada, resultado |-> resultado])
  /\ UNCHANGED <<pc, op, args, res, logger, sessions, console, clock, handlers>>

Registrar ==
  /\ pc = "logger" /\ logger.cls = "cli" /\ Len(calls) < MaxCalls
  /\ \E entrada \in EntradasLog, resultado \in ResultadosLog :
       /\ files' = append_file(files, logger.filename,
                     log_lines(logger.cls, clock, "Normalizador", entrada, resultado))
       /\ calls' = Append(calls, [method |-> "registrar", time |-> clock,
                                  tipo |-> "Normalizador", entrada |-> entrada,
                                  resultado |-> resultado])
  /\ UNCHANGED <<pc, op, args, res, logger, sessions, console, clock, handlers>>

RegistrarPatron ==
  /\ pc = "logger" /\ logger.cls = "cli" /\ Len(calls) < MaxCalls
  /\ \E coincidencias \in CoincidenciasLog :
       /\ files' = append_file(files, logger.filename,
                     patron_lines(clock, "Correos", coincidencias))
       /\ calls' = Append(calls, [method |-> "registrar_patron", time |-> clock,
                                  tipo |-> "Correos", coincidencias |-> coincidencias])
  /\ UNCHANGED <<pc, op, args, res, logger, sessions, console, clock, handlers>>

\* The wall clock (in seconds) moves between two calls.
Tick ==
  /\ pc \in {"logger", "sessions", "logging"} /\ clock < MaxClock
  /\ clock' = clock + 1
  /\ UNCHANGED <<pc, op, args, res, files, logger, sessions, console, calls, handlers>>

NextLogger == Log \/ Registrar \/ RegistrarPatron \/ Tick

SpecLogger == InitLogger /\ [][NextLogger]_vars

\* ----------------------------------------------------------- sessions run
\* The logs/ directory shared by the SessionLogger instances constructed in
\* it, by one program or by several runs started from the same directory:
\* each is named by the second of its construction and writes its header
\* with mode 'w'; any of them may then append an entry.
SessionClasses == {"wordChef", "cli", "original"}

EntradasSesion == { <<"S", "o", "l">>, <<>> }

InitSessions ==
  /\ pc = "sessions"
  /\ op = "none"
  /\ args = None
  /\ res = None
  /\ clock = 0
  /\ logger = None
  /\ files = <<>>
  /\ calls = <<>>
  /\ sessions = <<>>
  /\ console = <<>>
  /\ handlers = <<>>

\* SessionLogger(): __init__ names the file and writes the header.
Construct ==
  /\ pc = "sessions" /\ Len(sessions) < MaxSessions
  /\ \E cls \in SessionClasses :
       /\ sessions' = Append(sessions, new_logger(cls, clock))
       /\ files' = write_file(files, new_logger(cls, clock).filename, write_header(cls, clock))
  /\ UNCHANGED <<pc, op, args, res, logger, calls, clock, console, handlers>>

\* One instance writes an entry (log or registrar) to its own file.
SessionLog ==
  /\ pc = "sessions" /\ Len(calls) < MaxCalls
  /\ \E i \in 1..Len(sessions), entrada \in EntradasSesion :
       /\ files' = append_file(files, sessions[i].filename,
                     log_lines(sessions[i].cls, clock, "Normalizador", entrada,
                               Str(Msg("sol"))))
       /\ calls' = Append(calls, [method |-> "log", session |-> i, time |-> clock,
                                  tipo |-> "Normalizador", entrada |-> entrada,
                                  resultado |-> Str(Msg("sol"))])
  /\ UNCHANGED <<pc, op, args, res, logger, clock, sessions, console, handlers>>

NextSessions == Construct \/ SessionLog \/ Tick

SpecSessions == InitSessions /\ [][NextSessions]_vars

\* ----------------------------------------------- logging-based sessions run
\* The SessionLogger instances of bloque_mejoras constructed in one process
\* with the default arguments, and the log / error calls made on them.
\* handlers is the registry of the logging module: the handlers of each
\* named logger, each handler given by the file it writes.
NoSerializable == [kind |-> "norepr"]

EntradasLogging == { <<"S", "o", "l">>, <<"a">> \o Rep("x", SnippetLen) }

ResultadosLogging == { Str(Msg("sol")), NoSerializable }

InitLogging ==
  /\ pc = "logging"
  /\ op = "none"
  /\ args = None
  /\ res = None
  /\ clock = 0
  /\ logger = None
  /\ files = <<>>
  /\ calls = <<>>
  /\ sessions = <<>>
  /\ console = <<>>
  /\ handlers = <<>>

\* SessionLogger(): the logger is named by the second of the construction,
\* as the file is; a new handler opens its file for appending.
ConstructLogging ==
  /\ pc = "logging" /\ Len(sessions) < MaxSessions
  /\ handlers' = add_handler(handlers, clock, clock)
  /\ files' = IF handlers' # handlers THEN append_file(files, clock, <<>>) ELSE files
  /\ sessions' = Append(sessions, [cls |-> "mejoras", filename |-> clock, name |-> clock])
  /\ UNCHANGED <<pc, op, args, res, logger, calls, clock, console>>

\* SessionLogger.log: one info record, with repr(result) or, when repr
\* raises, with the fallback text.
LoggingLog ==
  /\ pc = "logging" /\ Len(calls) < MaxCalls
  /\ \E i \in 1..Len(sessions), entrada \in EntradasLogging, resultado \in ResultadosLogging :
       LET result == IF resultado = NoSerializable THEN Str(Msg("(no serializable)"))
                     ELSE resultado
       IN /\ files' = emit(files, handlers[sessions[i].name],
                            logging_line(clock, "INFO", "Normalizador", entrada, result))
          /\ calls' = Append(calls, [method |-> "log", session |-> i, time |-> clock,
                                     level |-> "INFO", action |-> "Normalizador",
                                     snippet |-> entrada, result |-> result])
  /\ UNCHANGED <<pc, op, args, res, logger, clock, sessions, console, handlers>>

\* SessionLogger.error: one error record.
LoggingError ==
  /\ pc = "logging" /\ Len(calls) < MaxCalls
  /\ \E i \in 1..Len(sessions) :
       /\ files' = emit(files, handlers[sessions[i].name],
                        logging_line(clock, "ERROR", "Error procesando con spaCy", <<>>, None))
       /\ calls' = Append(calls, [method |-> "error", session |-> i, time |-> clock,
                                  level |-> "ERROR", action |-> "Error procesando con spaCy",
                                  snippet |-> <<>>, result |-> None])
  /\ UNCHANGED <<pc, op, args, res, logger, clock, sessions, console, handlers>>

NextLogging == ConstructLogging \/ LoggingLog \/ LoggingError \/ Tick

SpecLogging == InitLogging /\ [][NextLogging]_vars

\* -------------------------------------------------------------- front-ends
\* The console / window trace of an interactive run: what was shown, what
\* was asked of the user, which analysis ran.
Ev(ev, what) == [ev |-> ev, what |-> what]

\* The dependencies a front-end initialises once: cargar_modelo_spacy(),
\* inicializar_sentimiento().  Nothing is installed, the pipeline and the
\* classifier fail on the text, or both answer.
PipelineDemo ==
  [kind |-> "doc", doc |-> <<Span(TRUE, <<TSol>>), Span(TRUE, <<TLas, TMar>>)>>,
   sents |-> <<Oracion(TextoDemo, <<TSol, TLas, TMar>>)>>,
   ents |-> <<Ent(<<"S", "o", "l">>, "LOC")>>]

Dependencias ==
  { [nlp |-> NoNlp, clasificador |-> [kind |-> "None"]],
    [nlp |-> NlpRaises, clasificador |-> [kind |-> "raises"]],
    [nlp |-> PipelineDemo,
     clasificador |-> [kind |-> "ok", label |-> <<"5", " ", "s", "t", "a", "r", "s">>,
                       score |-> 4321]] }

\* The analysis behind option / button k, as the front-ends call it.
Analisis(k, texto, deps) ==
  CASE k = "1" -> normalizador_texto(texto, deps.nlp)
    [] k = "2" -> [kind |-> "patrones", fechas |-> encontrar_fechas(texto),
                   dinero |-> encontrar_dinero(texto), correos |-> encontrar_correos(texto)]
    [] k = "3" -> resumen_simple(texto, ResumenN, deps.nlp)
    [] k = "4" -> extraer_entidades(texto, deps.nlp)
    [] k = "5" -> extraer_palabras_clave(texto, TRUE, deps.nlp)
    [] k = "6" -> sentimiento_es(texto, deps.clasificador)

\* The dict a front-end hands to the logger for a result.
DictOf(r) ==
  CASE r.kind = "patrones" ->
         Dict(<<Item("Fechas", Lista(r.fechas)), Item("Dinero", Lista(r.dinero)),
                Item("Correos", Lista(r.correos))>>)
    [] r.kind = "str" -> Dict(<<Item("Resumen", Escalar(r.value))>>)
    [] r.kind = "tuple" ->
         Dict(<<Item("Sentimiento", Escalar(r.sentimiento)),
                Item("Confianza", Escalar(r.puntuacion)), Item("Etiqueta", Escalar(r.etiqueta))>>)
    [] r.kind = "dict" /\ "items" \in DOMAIN r -> r
    [] r.kind = "dict" /\ "original" \in DOMAIN r ->
         Dict(<<Item("original", Escalar(r.original)), Item("lematizado", Escalar(r.lematizado)),
                Item("sin_repeticiones", Escalar(r.sin_repeticiones)),
                Item("corregido", Escalar(r.corregido))>>)
    [] r.kind = "dict" /\ "verbos" \in DOMAIN r -> dict_palabras(r)
    [] OTHER -> r

TipoLog == [k \in {"1", "2", "3", "4", "5", "6"} |->
              CASE k = "1" -> "Normalizador" [] k = "2" -> "Patrones" [] k = "3" -> "Resumen"
                [] k = "4" -> "NER" [] k = "5" -> "Palabras clave" [] k = "6" -> "Sentimiento"]

\* ------------------------------------------------------------------- menus
\* `a in b` for two str values.
IsSubstring(a, b) == \E i \in 0..(Len(b) - Len(a)) : SubSeq(b, i + 1, i + Len(a)) = a

OpcionesMenu ==
  { <<"0">>, <<" ", "0", " ">>, <<"1">>, <<"2">>, <<"3">>, <<"4">>, <<"5">>, <<"6">>, <<>>,
    <<"1", "2">>, <<"3", "4", "5">>, <<"7">>, <<"6", "1">> }

TextosMenu == { <<>>, TextoDemo }

\* What one pass of the body of menu_principal found: the trace, the calls
\* made on the logger, and how the pass ended (again, exit, raised).
Pasada(eventos, llamadas, fin) == [eventos |-> eventos, llamadas |-> llamadas, fin |-> fin]

\* A pass that goes on with a branch after the events so far.
Seguir(eventos, rama) == Pasada(eventos \o rama.eventos, rama.llamadas, rama.fin)

\* The branch of option k once the text is read and the analysis returned
\* (or raised) r: wordChef.py.
rama_wordChef(k, texto, r, now) ==
  LET run == <<Ev("run", k)>>
      show == <<Ev("print", "resultado")>>
      entry == <<LogCall(now, TipoLog[k], texto, DictOf(r))>>
  IN IF r.kind = "raised" THEN Pasada(run, <<>>, "raised")
     ELSE IF k \in {"1", "5"}
     THEN IF r.kind = "None" THEN Pasada(run, <<>>, "again")
          ELSE Pasada(run \o show, entry, "again")
     ELSE IF k = "6" /\ r.sentimiento = Msg("Error")
     THEN Pasada(run \o <<Ev("print", "Ocurrio un error")>>, <<>>, "again")
     ELSE Pasada(run \o show, entry, "again")

\* Mutant of pasada_wordChef: the spaCy model is loaded again in every pass.
pasada_wordChef_recarga(raw, texto, deps, now) ==
  LET opcion == strip(raw)
      inicio == <<Ev("menu", "wordChef"), Ev("input", raw),
                 Ev("call", "cargar_modelo_spacy")>>
  IN IF opcion = <<"0">> THEN Pasada(inicio \o <<Ev("print", "Saliendo.")>>, <<>>, "exit")
     ELSE IF ~IsSubstring(opcion, <<"1", "2", "3", "4", "5", "6">>)
     THEN Pasada(inicio \o <<Ev("print", "Opcion no valida")>>, <<>>, "again")
     ELSE LET pedido == inicio \o <<Ev("solicitar_texto", texto)>>
          IN IF Len(opcion) = 1
             THEN Seguir(pedido, rama_wordChef(opcion[1], texto,
                                               Analisis(opcion[1], texto, deps), now))
             ELSE Pasada(pedido, <<>>, "again")

\* One pass of the loop of menu_principal of wordChef.py on the selection
\* typed (raw) and the text obtener_texto returns if it is asked for.
pasada_wordChef(raw, texto, deps, now) ==
  LET opcion == strip(raw)
      inicio == <<Ev("menu", "wordChef"), Ev("input", raw)>>
  IN IF opcion = <<"0">> THEN Pasada(inicio \o <<Ev("print", "Saliendo.")>>, <<>>, "exit")
     ELSE IF ~IsSubstring(opcion, <<"1", "2", "3", "4", "5", "6">>)
     THEN Pasada(inicio \o <<Ev("print", "Opcion no valida")>>, <<>>, "again")
     ELSE LET pedido == inicio \o <<Ev("solicitar_texto", texto)>>
          IN IF Len(opcion) = 1
             THEN Seguir(pedido, rama_wordChef(opcion[1], texto,
                                               Analisis(opcion[1], texto, deps), now))
             ELSE Pasada(pedido, <<>>, "again")

TipoRegistro == [k \in {"1", "3", "4", "5", "6"} |->
                   CASE k = "1" -> "Normalizador" [] k = "3" -> "Resumen simple"
                     [] k = "4" -> "Extraccion NER" [] k = "5" -> "Palabras clave"
                     [] k = "6" -> "Analisis de sentimiento"]

\* Mutant of rama_cli: the `if logger:` guards are missing, so a logger that
\* is None raises AttributeError after the result is shown.
rama_cli_sin_guardia(k, texto, r, lg, now) ==
  LET pedido == <<Ev("input_texto", texto), Ev("run", k)>>
      show == <<Ev("print", "resultado")>>
      fin == IF lg = None THEN "raised" ELSE "again"
      hechas(cs) == IF lg = None THEN <<>> ELSE cs
  IN IF r.kind = "raised" THEN Pasada(pedido, <<>>, "raised")
     ELSE IF k = "2"
     THEN Pasada(pedido \o show,
                 hechas(<<PatronCall(now, "Fechas", r.fechas), PatronCall(now, "Dinero", r.dinero),
                          PatronCall(now, "Correos", r.correos)>>), fin)
     ELSE IF k \in {"1", "5"} /\ r.kind = "None"
     THEN Pasada(pedido \o <<Ev("print", "Texto invalido")>>, <<>>, "again")
     ELSE IF k = "6" /\ r.sentimiento = Msg("Error")
     THEN Pasada(pedido \o <<Ev("print", "Ocurrio un error")>>, <<>>, "again")
     ELSE Pasada(pedido \o show,
                 hechas(<<[LogCall(now, TipoRegistro[k], texto,
                                   IF k = "3" THEN r ELSE DictOf(r)) EXCEPT !.method = "registrar"]>>),
                 fin)

\* The branch of option k of cli.py; its analysis functions are the ones
\* wordChef.py defines under the same names.  lg is the global logger, None
\* when it could not be created: every call on it is behind `if logger:`.
rama_cli(k, texto, r, lg, now) ==
  LET pedido == <<Ev("input_texto", texto), Ev("run", k)>>
      show == <<Ev("print", "resultado")>>
      hechas(cs) == IF lg = None THEN <<>> ELSE cs
  IN IF r.kind = "raised" THEN Pasada(pedido, <<>>, "raised")
     ELSE IF k = "2"
     THEN Pasada(pedido \o show,
                 hechas(<<PatronCall(now, "Fechas", r.fechas), PatronCall(now, "Dinero", r.dinero),
                          PatronCall(now, "Correos", r.correos)>>), "again")
     ELSE IF k \in {"1", "5"} /\ r.kind = "None"
     THEN Pasada(pedido \o <<Ev("print", "Texto invalido")>>, <<>>, "again")
     ELSE IF k = "6" /\ r.sentimiento = Msg("Error")
     THEN Pasada(pedido \o <<Ev("print", "Ocurrio un error")>>, <<>>, "again")
     ELSE Pasada(pedido \o show,
                 hechas(<<[LogCall(now, TipoRegistro[k], texto,
                                   IF k = "3" THEN r ELSE DictOf(r)) EXCEPT !.method = "registrar"]>>),
                 "again")

\* One pass of the loop of menu_principal of cli.py; `disponibles` holds the
\* options whose analysis function could be imported.
pasada_cli(raw, texto, deps, disponibles, lg, now) ==
  LET opcion == strip(raw)
      inicio == <<Ev("menu", "cli"), Ev("input", raw)>>
  IN IF opcion = <<"0">> THEN Pasada(inicio \o <<Ev("print", "Saliendo.")>>, <<>>, "exit")
     ELSE IF Len(opcion) = 1 /\ opcion[1] \in {"1", "2", "3", "4", "5", "6"}
     THEN IF opcion[1] \notin disponibles
          THEN Pasada(inicio \o <<Ev("print", "Funcion no disponible")>>, <<>>, "again")
          ELSE Seguir(inicio, rama_cli(opcion[1], texto, Analisis(opcion[1], texto, deps),
                                       lg, now))
     ELSE Pasada(inicio \o <<Ev("print", "Opcion no valida")>>, <<>>, "again")

\* The analysis functions cli.py managed to import, by option: all of them,
\* none, or those of some of its modules.
Importables == { {"1", "2", "3", "4", "5", "6"}, {}, {"1", "2", "6"}, {"3", "4", "5"} }

\* wordChef.py defines its functions and starts only with its logger made;
\* cli.py goes on with the functions it lacks and with logger = None.
ArgsMenu ==
  [programa : {"wordChef"}, deps : Dependencias,
   disponibles : {{"1", "2", "3", "4", "5", "6"}}, con_logger : {TRUE}]
  \cup [programa : {"cli"}, deps : Dependencias, disponibles : Importables,
        con_logger : BOOLEAN]

Pasadas == Cardinality({i \in 1..Len(console) : console[i].ev = "menu"})

InitMenu ==
  /\ pc = "inicio"
  /\ op = "menu_principal"
  /\ args \in ArgsMenu
  /\ res = None
  /\ clock = 0
  /\ logger = IF args.con_logger THEN new_logger(args.programa, 0) ELSE None
  /\ files = IF args.con_logger THEN write_file(<<>>, 0, write_header(args.programa, 0))
             ELSE <<>>
  /\ calls = <<>>
  /\ sessions = IF args.con_logger THEN <<logger>> ELSE <<>>
  /\ console = <<>>
  /\ handlers = <<>>

\* menu_principal before its loop: the dependencies are initialised.  cli.py
\* loads the spaCy model only, when it could import the loader.
MenuInicio ==
  /\ pc = "inicio"
  /\ console' = console \o
       (IF args.programa = "wordChef"
        THEN <<Ev("call", "cargar_modelo_spacy"), Ev("call", "inicializar_nltk"),
               Ev("call", "inicializar_sentimiento")>>
        ELSE IF args.disponibles # {} THEN <<Ev("call", "cargar_modelo_spacy")>>
        ELSE <<Ev("print", "cargar_modelo_spacy no disponible")>>)
  /\ pc' = "menu"
  /\ UNCHANGED <<op, args, res, files, logger, calls, clock, sessions, handlers>>

\* The effect of one pass on the console, the session file and the loop.
Efecto(p) ==
  /\ console' = console \o p.eventos
  /\ calls' = calls \o p.llamadas
  /\ files' = write_calls(files, logger, p.llamadas)
  /\ pc' = CASE p.fin = "again" -> "menu" [] p.fin = "exit" -> "exit"
             [] p.fin = "raised" -> "raised"

\* One pass of the `while True` of menu_principal.
MenuPasada ==
  /\ pc = "menu" /\ Pasadas < MaxSelecciones
  /\ \E raw \in OpcionesMenu, texto \in TextosMenu :
       Efecto(IF args.programa = "wordChef"
              THEN pasada_wordChef(raw, texto, args.deps, clock)
              ELSE pasada_cli(raw, texto, args.deps, args.disponibles, logger, clock))
  /\ UNCHANGED <<op, args, res, logger, clock, sessions, handlers>>

\* The wall clock moves while the menu waits for the selection.
MenuTick ==
  /\ pc = "menu" /\ clock < MaxClock
  /\ clock' = clock + 1
  /\ UNCHANGED <<pc, op, args, res, files, logger, calls, sessions, console, handlers>>

NextMenu == MenuInicio \/ MenuPasada \/ MenuTick

SpecMenu == InitMenu /\ [][NextMenu]_vars

\* ----------------------------------------------------------------- windows
\* The contents of the input box when a button is pressed; Tk hands them
\* back with a final newline.
CajasTexto == { <<"NL">>, <<" ", "NL">>, TextoDemo \o <<"NL">> }

\* WordChefGUI: obtener_texto and the handler of button k (normalizar,
\* patrones, resumen, ner, palabras_clave, sentimiento); r is what the
\* analysis returns on the text of the box.
handler_WordChefGUI(k, caja, r, now) ==
  LET texto == strip(caja)
  IN IF texto = <<>> THEN Pasada(<<Ev("showwarning", "Ingresa algun texto.")>>, <<>>, "again")
     ELSE IF r.kind = "raised" THEN Pasada(<<Ev("run", k)>>, <<>>, "raised")
     ELSE Pasada(<<Ev("run", k), Ev("mostrar_resultado", k)>>,
                 <<LogCall(now, TipoLog[k], texto, DictOf(r))>>, "again")

\* WorldChefGUI: get_texto and the handler of button k (run_normalizador,
\* run_patrones, run_resumen, run_ner, run_keywords, run_sentimiento).  Only
\* run_normalizador looks at the text before it goes on; subscripting the
\* None an analysis returned raises TypeError.
handler_WorldChefGUI(k, caja, r, now) ==
  LET texto == strip(caja)
  IN IF k = "1" /\ texto = <<>>
     THEN Pasada(<<Ev("showwarning", "Introduce un texto primero.")>>, <<>>, "again")
     ELSE IF r.kind = "raised" \/ (k \in {"1", "5"} /\ r.kind = "None")
     THEN Pasada(<<Ev("run", k)>>, <<>>, "raised")
     ELSE Pasada(<<Ev("run", k), Ev("insert", k)>>,
                 <<LogCall(now, TipoLog[k], texto, DictOf(r))>>, "again")

ArgsGUI == [clase : {"WordChefGUI", "WorldChefGUI"}, deps : Dependencias]

Pulsaciones == Cardinality({i \in 1..Len(console) : console[i].ev = "click"})

\* The window is up: the module's logger is constructed, the dependencies
\* are initialised, mainloop waits for a button.
InitGUI ==
  /\ pc = "mainloop"
  /\ op = "gui"
  /\ args \in ArgsGUI
  /\ res = None
  /\ clock = 0
  /\ logger = new_logger("wordChef", 0)
  /\ files = write_file(<<>>, 0, write_header("wordChef", 0))
  /\ calls = <<>>
  /\ sessions = <<logger>>
  /\ console = <<>>
  /\ handlers = <<>>

\* The effect of a callback on the window and the session file; Tk reports
\* an exception raised by a callback and mainloop goes on.
EfectoGUI(k, caja, p) ==
  /\ console' = console \o <<Ev("click", k), Ev("get", caja)>> \o p.eventos
                   \o (IF p.fin = "raised" THEN <<Ev("excepcion", k)>> ELSE <<>>)
  /\ calls' = calls \o p.llamadas
  /\ files' = write_calls(files, logger, p.llamadas)

\* The callback of button k runs on the text the box holds.
Pulsar(k) ==
  /\ Pulsaciones < MaxPulsaciones
  /\ \E caja \in CajasTexto :
       EfectoGUI(k, caja,
                 IF args.clase = "WordChefGUI"
                 THEN handler_WordChefGUI(k, caja, Analisis(k, strip(caja), args.deps), clock)
                 ELSE handler_WorldChefGUI(k, caja, Analisis(k, strip(caja), args.deps), clock))
  /\ UNCHANGED <<pc, op, args, res, logger, clock, sessions, handlers>>

\* One button each: Normalizar, Patrones, Resumen, NER, Palabras Clave,
\* Sentimiento.
Click_normalizar ==
  /\ pc = "mainloop"
  /\ Pulsar("1")

Click_patrones ==
  /\ pc = "mainloop"
  /\ Pulsar("2")

Click_resumen ==
  /\ pc = "mainloop"
  /\ Pulsar("3")

Click_ner ==
  /\ pc = "mainloop"
  /\ Pulsar("4")

Click_palabras_clave ==
  /\ pc = "mainloop"
  /\ Pulsar("5")

Click_sentimiento ==
  /\ pc = "mainloop"
  /\ Pulsar("6")

NextGUI ==
  \/ Click_normalizar
  \/ Click_patrones
  \/ Click_resumen
  \/ Click_ner
  \/ Click_palabras_clave
  \/ Click_sentimiento

SpecGUI == InitGUI /\ [][NextGUI]_vars

\* ----------------------------------------------------------- obtener_texto
\* for _ in range(3)
MaxRondas == 3

\* What a path names: nothing, a file that cannot be opened or decoded (a
\* directory, no permission, bytes that are not UTF-8), or a text file.
Archivos ==
  { [kind |-> "missing"], [kind |-> "unreadable"],
    [kind |-> "file", content |-> TextoDemo], [kind |-> "file", content |-> <<>>] }

\* Mutant of leer_archivo: the error of open / read is not caught.
leer_archivo_sin_except(archivo) ==
  CASE archivo.kind = "missing" -> [eventos |-> <<Ev("print", "no existe")>>, valor |-> None]
    [] archivo.kind = "unreadable" -> [eventos |-> <<>>, valor |-> [kind |-> "raised"]]
    [] OTHER -> [eventos |-> <<>>, valor |-> Str(archivo.content)]

\* leer_archivo(ruta): what it prints and what it returns.
leer_archivo(archivo) ==
  CASE archivo.kind = "missing" -> [eventos |-> <<Ev("print", "no existe")>>, valor |-> None]
    [] archivo.kind = "unreadable" ->
         [eventos |-> <<Ev("print", "Error al leer el archivo")>>, valor |-> None]
    [] OTHER -> [eventos |-> <<>>, valor |-> Str(archivo.content)]

\* What the user types at the "> " prompt of a round.
OpcionesModo == { <<"1">>, <<" ", "1", " ">>, <<"2">>, <<"2", " ">>, <<>>, <<"3">>, <<"1", "2">> }

TextosTecleados == { <<>>, <<" ">>, TextoDemo }

Rondas == Cardinality({i \in 1..Len(console) : console[i].ev = "modo"})

InitTexto ==
  /\ pc = "obtener_texto"
  /\ op = "obtener_texto"
  /\ args = None
  /\ res = None
  /\ clock = 0
  /\ logger = new_logger("wordChef", 0)
  /\ files = write_file(<<>>, 0, write_header("wordChef", 0))
  /\ calls = <<>>
  /\ sessions = <<logger>>
  /\ console = <<>>
  /\ handlers = <<>>

\* A round in which '1' is typed: the text typed next is returned.
RondaManual ==
  /\ pc = "obtener_texto" /\ Rondas < MaxRondas
  /\ \E raw \in OpcionesModo, texto \in TextosTecleados :
       /\ strip(raw) = <<"1">>
       /\ console' = console \o <<Ev("modo", raw), Ev("input_texto", texto)>>
       /\ res' = Str(texto)
  /\ pc' = "done"
  /\ UNCHANGED <<op, args, files, logger, calls, clock, sessions, handlers>>

\* A round in which '2' is typed: the file of the path typed next is
\* returned if leer_archivo could read it, else the loop goes on.
RondaArchivo ==
  /\ pc = "obtener_texto" /\ Rondas < MaxRondas
  /\ \E raw \in OpcionesModo, archivo \in Archivos :
       LET leido == leer_archivo(archivo)
       IN /\ strip(raw) = <<"2">>
          /\ console' = console \o <<Ev("modo", raw), Ev("input_ruta", archivo)>> \o leido.eventos
                           \o (IF leido.valor = None THEN <<Ev("print", "Intenta de nuevo.")>>
                               ELSE <<>>)
          /\ res' = leido.valor
          /\ pc' = CASE leido.valor.kind = "str" -> "done"
                     [] leido.valor.kind = "raised" -> "raised"
                     [] OTHER -> "obtener_texto"
  /\ UNCHANGED <<op, args, files, logger, calls, clock, sessions, handlers>>

\* A round in which anything else is typed.
RondaInvalida ==
  /\ pc = "obtener_texto" /\ Rondas < MaxRondas
  /\ \E raw \in OpcionesModo :
       /\ strip(raw) \notin {<<"1">>, <<"2">>}
       /\ console' = console \o <<Ev("modo", raw), Ev("print", "Opcion no valida")>>
  /\ UNCHANGED <<pc, op, args, res, files, logger, calls, clock, sessions, handlers>>

\* After the three rounds: one manual prompt, whose text is returned.
EntradaFinal ==
  /\ pc = "obtener_texto" /\ Rondas = MaxRondas
  /\ \E texto \in TextosTecleados :
       /\ console' = console \o <<Ev("input_final", texto)>>
       /\ res' = Str(texto)
  /\ pc' = "done"
  /\ UNCHANGED <<op, args, files, logger, calls, clock, sessions, handlers>>

NextTexto == RondaManual \/ RondaArchivo \/ RondaInvalida \/ EntradaFinal

\* input() returns once the user has typed: a round that can be made is made.
SpecTexto == InitTexto /\ [][NextTexto]_vars /\ WF_vars(NextTexto)

\* ================================================================== claims
Mejoras == "mejoras.extraer_palabras_clave"

\* The call of bloque_mejoras' extraer_palabras_clave returned a result
\* computed with a spaCy doc.
MejorasConDoc == pc = "done" /\ op = Mejoras /\ res.kind = "dict" /\ args.nlp.kind = "doc"

\* The chunks of the call's doc, and what the claims say about a phrase:
\* its occurrence count among the counted chunks, its number of words, the
\* position of its first occurrence, and whether a top noun is among its words.
ChunksOf(a) == noun_chunks(a.nlp.doc)
OccurrencesOf(a, p) ==
  {i \in 1..Len(ChunksOf(a)) : chunk_counted(ChunksOf(a)[i]) /\ phrase_lemmas(ChunksOf(a)[i]) = p}
FreqOf(a, p) == Cardinality(OccurrencesOf(a, p))
WordsOf(p) == 1 + Cardinality({i \in 1..Len(p) : p[i] = " "})
FirstOf(a, p) == CHOOSE i \in OccurrencesOf(a, p) : \A j \in OccurrencesOf(a, p) : i <= j
HasTopNoun(r, p) == \E k \in 1..Len(r.sustantivos) : r.sustantivos[k][1] \in Range(split(p))
Candidates(a) == {phrase_lemmas(ChunksOf(a)[i]) : i \in {j \in 1..Len(ChunksOf(a)) : chunk_counted(ChunksOf(a)[j])}}
\* Twice the score the specification gives the phrase, in thousandths.
TwiceScoreOf(a, r, p) ==
  1000 * FreqOf(a, p) * (WordsOf(p) + 1) + (IF HasTopNoun(r, p) THEN 400 ELSE 0)
Reported(r) == {r.frases_clave[k][1] : k \in 1..Len(r.frases_clave)}

\* C1: every (phrase, score) of frases_clave has
\* score = freq * (1 + 0.5 * (n - 1)), plus 0.2 exactly when a word of the
\* phrase is a top noun (freq: occurrences of the phrase, n: its words).
C1_ScoreFormula ==
  MejorasConDoc =>
    \A k \in 1..Len(res.frases_clave) :
      2 * res.frases_clave[k][2] = TwiceScoreOf(args, res, res.frases_clave[k][1])

\* C1 witness: a result with a phrase that holds a top noun and one that does
\* not, one of them counted twice and of two words.
C1_Witness ==
  /\ MejorasConDoc
  /\ \E p, q \in Reported(res) :
       /\ HasTopNoun(res, p) /\ ~HasTopNoun(res, q)
       /\ FreqOf(args, p) = 2 /\ WordsOf(p) = 2

\* C2: among the reported phrases, with the same top-noun flag, a phrase with
\* no smaller frequency and no fewer words has no smaller (rounded) score.
C2_ScoreMonotone ==
  MejorasConDoc =>
    \A i, j \in 1..Len(res.frases_clave) :
      LET p == res.frases_clave[i][1]
          q == res.frases_clave[j][1]
      IN (/\ HasTopNoun(res, p) = HasTopNoun(res, q)
          /\ FreqOf(args, p) <= FreqOf(args, q)
          /\ WordsOf(p) <= WordsOf(q))
         => res.frases_clave[i][2] <= res.frases_clave[j][2]

\* C2 witness: two reported phrases with the same flag, one with strictly
\* more occurrences and the other with strictly more words, and two with the
\* same flag where one has both more occurrences and more words.
C2_Witness ==
  /\ MejorasConDoc
  /\ \E p, q \in Reported(res) :
       /\ HasTopNoun(res, p) = HasTopNoun(res, q)
       /\ FreqOf(args, p) < FreqOf(args, q)
       /\ WordsOf(p) < WordsOf(q)

\* "No result": None or an empty collection.
NoResult(r) ==
  \/ r.kind = "None"
  \/ r.kind = "dict" /\ "items" \in DOMAIN r /\ r.items = <<>>
  \/ r.kind = "str" /\ r.value = <<>>

\* C3: every validating operation called with '' or whitespace-only text
\* returns None or an empty collection.
C3_BlankNoResult ==
  (pc = "done" /\ IsBlank(args.texto)) => NoResult(res)

\* C4: top_5_palabras, sustantivos and verbos have at most top_n elements and
\* frases_clave at most top_phrases, for every integer top_n and top_phrases
\* (a list has at least 0 elements: for a negative size, none).
C4_SizeBound ==
  (pc = "done" /\ op = Mejoras /\ res.kind = "dict") =>
    /\ Len(res.top_5_palabras) <= Max(0, args.top_n)
    /\ Len(res.sustantivos) <= Max(0, args.top_n)
    /\ Len(res.verbos) <= Max(0, args.top_n)
    /\ Len(res.frases_clave) <= Max(0, args.top_phrases)

\* C5: frases_clave is in non-increasing score order and no candidate phrase
\* left out of it scores strictly more than a phrase in it.
C5_TopScores ==
  MejorasConDoc =>
    /\ \A k \in 1..(Len(res.frases_clave) - 1) :
         res.frases_clave[k][2] >= res.frases_clave[k + 1][2]
    /\ \A c \in Candidates(args) \ Reported(res) :
         \A k \in 1..Len(res.frases_clave) :
           TwiceScoreOf(args, res, c) <= 2 * res.frases_clave[k][2]

\* C5 witness: phrases of different scores, first counted in increasing score
\* order, with one candidate left out.
C5_Witness ==
  /\ MejorasConDoc
  /\ Len(res.frases_clave) >= 2
  /\ res.frases_clave[1][2] > res.frases_clave[2][2]
  /\ FirstOf(args, res.frases_clave[1][1]) > FirstOf(args, res.frases_clave[2][1])
  /\ Candidates(args) \ Reported(res) # {}

\* C6: of two phrases of equal score, the one counted first comes first in
\* frases_clave, and is the one kept when only one of them is returned.
C6_TiesByInsertion ==
  MejorasConDoc =>
    /\ \A i, j \in 1..Len(res.frases_clave) :
         (i < j /\ res.frases_clave[i][2] = res.frases_clave[j][2])
           => FirstOf(args, res.frases_clave[i][1]) < FirstOf(args, res.frases_clave[j][1])
    /\ \A c \in Candidates(args) \ Reported(res) :
         \A k \in 1..Len(res.frases_clave) :
           TwiceScoreOf(args, res, c) = 2 * res.frases_clave[k][2]
             => FirstOf(args, res.frases_clave[k][1]) < FirstOf(args, c)

\* C6 witness: two tied phrases are both returned, and a third phrase tied
\* with them is cut off by top_phrases.
C6_Witness ==
  /\ MejorasConDoc
  /\ Len(res.frases_clave) >= 2
  /\ res.frases_clave[1][2] = res.frases_clave[2][2]
  /\ \E c \in Candidates(args) \ Reported(res) :
       TwiceScoreOf(args, res, c) = 2 * res.frases_clave[1][2]

\* C7: a chunk whose lemma-joined phrase has fewer than 3 characters is not
\* counted and its phrase is not in frases_clave; with no surviving chunk,
\* frases_clave is empty and the call returns its result.
C7_ShortPhrases ==
  (pc = "done" /\ op = Mejoras /\ ~IsBlank(args.texto) /\ args.nlp.kind = "doc") =>
    /\ res.kind = "dict"
    /\ \A k \in 1..Len(res.frases_clave) : Len(res.frases_clave[k][1]) >= 3
    /\ \A i \in 1..Len(ChunksOf(args)) :
         Len(phrase_lemmas(ChunksOf(args)[i])) < 3
           => /\ phrase_lemmas(ChunksOf(args)[i]) \notin Reported(res)
              /\ \A k \in 1..Len(phrase_counter(args.nlp.doc)) :
                   phrase_counter(args.nlp.doc)[k][1] # phrase_lemmas(ChunksOf(args)[i])
    /\ (\A i \in 1..Len(ChunksOf(args)) : Len(phrase_lemmas(ChunksOf(args)[i])) < 3)
         => res.frases_clave = <<>>

\* C7 witness: a doc whose chunks all give a phrase under 3 characters (one
\* of them a two-character lemma, one of them nothing), with room for phrases.
C7_Witness ==
  /\ MejorasConDoc
  /\ args.top_phrases >= 1
  /\ \E i, j \in 1..Len(ChunksOf(args)) :
       /\ Len(phrase_lemmas(ChunksOf(args)[i])) = 2
       /\ Len(phrase_lemmas(ChunksOf(args)[j])) = 0
  /\ \A i \in 1..Len(ChunksOf(args)) : Len(phrase_lemmas(ChunksOf(args)[i])) < 3
  /\ res.frases_clave = <<>>

\* The number of occurrences of x in the sequence s.
CountIn(s, x) == Cardinality({i \in 1..Len(s) : s[i] = x})

\* What C8 says of one top-N list over the sequence it was counted from.
IsTopByCount(list, source) ==
  /\ \A k \in 1..Len(list) : list[k][2] = CountIn(source, list[k][1]) /\ list[k][2] >= 1
  /\ \A k \in 1..(Len(list) - 1) : list[k][2] >= list[k + 1][2]
  /\ \A x \in Range(source) \ {list[k][1] : k \in 1..Len(list)} :
       \A k \in 1..Len(list) : CountIn(source, x) <= list[k][2]

PalabrasOps == {"wordChef.extraer_palabras_clave", "original.extraer_palabras_clave"}

\* The sequences the three lists of a keyword result are counted from.
FuentePalabras == IF op = Mejoras THEN tokens_filtered_mejoras(args.texto, args.nltk)
                  ELSE IF args.nltk THEN tokens_filtrados(args.texto) ELSE <<>>
FuentePos(pos) == IF args.nlp.kind # "doc" THEN <<>>
                  ELSE IF op = Mejoras THEN lemmas_of(args.nlp.doc, pos)
                  ELSE texts_of(args.nlp.doc, pos)

PalabrasDone == pc = "done" /\ op \in PalabrasOps \cup {Mejoras} /\ res.kind = "dict"

\* C8: every (word, count) of top_5_palabras, sustantivos and verbos carries
\* the word's number of occurrences in the filtered sequence, the lists are in
\* non-increasing count order, and no word left out counts strictly more than
\* a word in the list.
C8_TopByCount ==
  PalabrasDone =>
    /\ IsTopByCount(res.top_5_palabras, FuentePalabras)
    /\ IsTopByCount(res.sustantivos, FuentePos("NOUN"))
    /\ IsTopByCount(res.verbos, FuentePos("VERB"))

\* C8 witness: a noun list cut to one entry whose word was first seen after a
\* less frequent noun, which is left out.
C8_Witness ==
  /\ PalabrasDone /\ op = Mejoras /\ args.nlp.kind = "doc"
  /\ Len(res.sustantivos) = 1 /\ res.sustantivos[1][2] = 2
  /\ \E x \in Range(FuentePos("NOUN")) :
       /\ x # res.sustantivos[1][1]
       /\ FuentePos("NOUN")[1] = x
  /\ Len(res.verbos) = 1

\* C9: in the NLTK branch and in the fallback branch, no reported top word is
\* a Spanish stopword, and every one has more than 2 characters and is
\* lowercase.
C9_NoStopwords ==
  PalabrasDone =>
    \A k \in 1..Len(res.top_5_palabras) :
      /\ res.top_5_palabras[k][1] \notin SpanishStopwords
      /\ Len(res.top_5_palabras[k][1]) > 2
      /\ lower(res.top_5_palabras[k][1]) = res.top_5_palabras[k][1]

\* ------------------------------------------------------ claims on the logger
IsPrefix(s, t) == Len(s) <= Len(t) /\ SubSeq(t, 1, Len(s)) = s

\* The entry one call of the history leaves in the file.
EntryOf(c) ==
  IF c.method = "registrar_patron" THEN patron_lines(c.time, c.tipo, c.coincidencias)
  ELSE log_lines(logger.cls, c.time, c.tipo, c.entrada, c.resultado)

SessionFile == files[logger.filename]

\* C10: the session file is the header written at construction followed by
\* one entry per call, in call order, and every step leaves the old content
\* as a prefix of the new.
C10_AppendOnly ==
  /\ [](SessionFile = write_header(logger.cls, logger.filename)
                        \o Flatten([i \in 1..Len(calls) |-> EntryOf(calls[i])]))
  /\ [][IsPrefix(SessionFile, SessionFile')]_vars

\* C10 witness: two calls made in different seconds, the first with an input
\* over 100 characters, the second a different kind of entry.
C10_Witness ==
  /\ pc = "logger" /\ Len(calls) = 2
  /\ calls[1].method = "registrar" /\ Len(calls[1].entrada) > TruncLen
  /\ calls[2].method = "registrar_patron"
  /\ calls[1].time < calls[2].time

\* The entries session i wrote, in call order.
RECURSIVE EntriesOfSession(_, _)
EntriesOfSession(i, cs) ==
  IF cs = <<>> THEN <<>>
  ELSE (IF Head(cs).session = i
        THEN log_lines(sessions[i].cls, Head(cs).time, Head(cs).tipo, Head(cs).entrada,
                       Head(cs).resultado)
        ELSE <<>>) \o EntriesOfSession(i, Tail(cs))

\* C11: no two SessionLogger instances have the same file, and the file of
\* every instance holds its own header followed by all the entries it wrote:
\* no construction erased them and no other session wrote into it.
C11_OneSessionPerFile ==
  pc = "sessions" =>
    /\ \A i, j \in 1..Len(sessions) : i # j => sessions[i].filename # sessions[j].filename
    /\ \A i \in 1..Len(sessions) :
         files[sessions[i].filename] =
           write_header(sessions[i].cls, sessions[i].filename) \o EntriesOfSession(i, calls)

\* The text after 'Entrada: ' in the entries of the session file: the
\* 'Entrada: ' line of log / registrar and the 'Entrada: ' field of the line
\* the logging-based logger of bloque_mejoras writes.
EntradaTexts ==
  LET ls == SelectSeq(files[logger.filename],
                      LAMBDA l : l.ln = "entrada" \/ (l.ln = "logging" /\ l.level = "INFO"))
  IN [i \in 1..Len(ls) |-> IF ls[i].ln = "entrada" THEN ls[i].text ELSE ls[i].snippet]

PatronOps ==
  {"wordChef.encontrar_fechas", "wordChef.encontrar_dinero", "wordChef.encontrar_correos"}

AllIn(s, i, j, set) == \A k \in i..j : s[k] \in set

\* The text has a run of digits, a separator, digits, a separator and digits
\* with the group lengths of a date: d/m/y (1-2, 1-2, 2-4) or y/m/d (4, 1-2, 1-2).
ContainsFecha(s) ==
  \E i, a, b, j \in 1..Len(s) :
    /\ i < a /\ a + 1 < b /\ b < j + 1 /\ s[a] \in {"/", "-"} /\ s[b] \in {"/", "-"}
    /\ AllIn(s, i, a - 1, Digits) /\ AllIn(s, a + 1, b - 1, Digits) /\ AllIn(s, b + 1, j, Digits)
    /\ LET n1 == a - i
           n2 == b - a - 1
           n3 == j - b
       IN \/ n1 \in 1..2 /\ n2 \in 1..2 /\ n3 \in 2..4
          \/ n1 = 4 /\ n2 \in 1..2 /\ n3 \in 1..2

\* A currency mark starts at position k of the text.
MarcaAt(s, k) ==
  /\ k <= Len(s)
  /\ \/ s[k] \in {"EUR", "$"}
     \/ k + 4 <= Len(s) /\ SubSeq(s, k, k + 4) = <<"e", "u", "r", "o", "s">>
     \/ k + 2 <= Len(s) /\ SubSeq(s, k, k + 2) = <<"U", "S", "D">>

\* The text has a digit followed, directly or after one blank, by a currency
\* mark, or a '$' directly followed by a digit.
ContainsDinero(s) ==
  \E i \in 1..Len(s) :
    \/ s[i] \in Digits /\ (MarcaAt(s, i + 1)
                           \/ (i + 1 <= Len(s) /\ s[i + 1] \in Whitespace /\ MarcaAt(s, i + 2)))
    \/ s[i] = "$" /\ i + 1 <= Len(s) /\ s[i + 1] \in Digits

\* The text has local@domain.tld: a local character before '@', a non-empty
\* domain after it, a dot and at least two letters.
ContainsCorreo(s) ==
  \E i, j \in 1..Len(s) :
    /\ s[i] = "@" /\ i > 1 /\ s[i - 1] \in Letters \cup Digits \cup {".", "_", "%", "+", "-"}
    /\ i + 1 < j /\ s[j] = "." /\ AllIn(s, i + 1, j - 1, Letters \cup Digits \cup {".", "-"})
    /\ j + 2 <= Len(s) /\ s[j + 1] \in Letters /\ s[j + 2] \in Letters

\* C16: encontrar_fechas, encontrar_dinero and encontrar_correos return a
\* list and never raise, and the list is empty for every text that contains
\* no date, no money amount and no e-mail address respectively.
C16_SinCoincidencias ==
  (pc = "done" /\ op \in PatronOps) =>
    /\ res.kind = "list"
    /\ (op = "wordChef.encontrar_fechas" /\ ~ContainsFecha(args.texto)) => res.elems = <<>>
    /\ (op = "wordChef.encontrar_dinero" /\ ~ContainsDinero(args.texto)) => res.elems = <<>>
    /\ (op = "wordChef.encontrar_correos" /\ ~ContainsCorreo(args.texto)) => res.elems = <<>>

\* C16 witness: encontrar_fechas returned the empty list for a text that has
\* digits and a separator but no date.
C16_Witness ==
  /\ pc = "done" /\ op = "wordChef.encontrar_fechas"
  /\ ~ContainsFecha(args.texto)
  /\ \E i \in 1..(Len(args.texto) - 1) : args.texto[i] \in Digits /\ args.texto[i + 1] = "/"
  /\ res = Lista(<<>>)

\* ------------------------------------------------ claims on the entities
\* The value the result holds under one key.
ValueOf(r, clave) ==
  LET its == SelectSeq(r.items, LAMBDA it : it.clave = clave)
  IN IF its = <<>> THEN <<>> ELSE its[1].valor.elems

\* The number of entities of the document with this text and label.
Ocurrencias(ents, e) == Cardinality({i \in 1..Len(ents) : ents[i] = e})

\* C19: for each NER category, every entity of the document that carries the
\* category's label is reported with its count: an entity that occurs k times
\* appears under the category's key as the pair (text, k).
C19_FrequencyCounts ==
  (pc = "done" /\ op = "wordChef.extraer_entidades" /\ res.kind = "dict"
     /\ args.nlp.kind = "doc") =>
    \A c \in Range(Categorias), i \in 1..Len(args.nlp.ents) :
      args.nlp.ents[i].label = c.tipo =>
        <<args.nlp.ents[i].text, Ocurrencias(args.nlp.ents, args.nlp.ents[i])>>
          \in Range(ValueOf(res, c.clave))

\* ------------------------------------------------- claims on resumen_simple
ResumenScored ==
  /\ pc = "done" /\ op = "wordChef.resumen_simple" /\ res.kind = "str"
  /\ ~IsBlank(args.texto)
  /\ Len(oraciones_de(args.texto, args.nlp)) > args.n

\* Two hundred times the score the claim gives sentence i: the nouns of the
\* sentence (its words of more than 2 characters without a pipeline), minus
\* its length in characters over 200, plus 1 for the first sentence.
ClaimedScore200(i) ==
  LET o == oraciones_de(args.texto, args.nlp)[i]
      palabras == {<<a, b>> \in (1..Len(o.text)) \X (1..Len(o.text)) :
                     /\ a <= b /\ \A k \in a..b : o.text[k] \in WordChars
                     /\ (a = 1 \/ o.text[a - 1] \notin WordChars)
                     /\ (b = Len(o.text) \/ o.text[b + 1] \notin WordChars)}
      cuenta == IF args.nlp.kind = "doc"
                THEN Cardinality({k \in 1..Len(o.toks) : o.toks[k].pos = "NOUN"})
                ELSE Cardinality({w \in palabras : w[2] - w[1] + 1 > 2})
  IN 200 * cuenta - Len(o.text) + (IF i = 1 THEN 200 ELSE 0)

\* The text of the sentences of S, in text order, joined by one space.
RECURSIVE ResumenDe(_, _)
ResumenDe(S, i) ==
  LET os == oraciones_de(args.texto, args.nlp)
  IN IF i > Len(os) THEN <<>>
     ELSE IF i \in S
          THEN LET resto == ResumenDe(S, i + 1)
               IN IF \E j \in S : j > i THEN strip(os[i].text) \o <<" ">> \o resto
                  ELSE strip(os[i].text)
          ELSE ResumenDe(S, i + 1)

\* C18: the summary is made of n sentences none of which scores less than a
\* sentence left out, the score of sentence i being its nouns (its words
\* longer than 2 characters without a pipeline) minus its length / 200, plus
\* a bonus of 1 when it is the first sentence.
C18_SentenceScore ==
  ResumenScored =>
    \E S \in SUBSET (1..Len(oraciones_de(args.texto, args.nlp))) :
      /\ Cardinality(S) = args.n
      /\ \A i \in S, j \in (1..Len(oraciones_de(args.texto, args.nlp))) \ S :
           ClaimedScore200(i) >= ClaimedScore200(j)
      /\ res.value = ResumenDe(S, 1)

\* C18 witness: the first sentence is in the summary only thanks to its
\* bonus: without it, it scores less than every other sentence, and one of
\* the others, shorter than the rest, is left out.
C18_Witness ==
  /\ ResumenScored
  /\ args.nlp.kind = "None"
  /\ LET os == oraciones_de(args.texto, args.nlp)
     IN /\ \A j \in 2..Len(os) : ClaimedScore200(1) - 200 < ClaimedScore200(j)
        /\ \E S \in SUBSET (2..Len(os)) :
             /\ Cardinality(S) = args.n - 1
             /\ res.value = ResumenDe(S \cup {1}, 1)
        /\ \A S \in SUBSET (2..Len(os)) : Cardinality(S) = args.n => res.value # ResumenDe(S, 1)

\* --------------------------------------- claims on unavailable dependencies
\* C17: with a dependency unavailable every operation returns None or an
\* empty collection: extraer_entidades without spaCy returns {}, the keyword
\* extractors without spaCy return empty sustantivos, verbos and frases_clave,
\* without NLTK they still return a result, and sentimiento_es without a
\* classifier returns None or an empty outcome.
C17_DependencyUnavailable ==
  pc = "done" =>
    /\ (op = "wordChef.extraer_entidades" /\ args.nlp.kind = "None") =>
         res = [kind |-> "dict", items |-> <<>>]
    /\ (op \in PalabrasOps \cup {Mejoras} /\ ~IsBlank(args.texto) /\ args.nlp.kind = "None") =>
         /\ res.kind = "dict"
         /\ res.sustantivos = <<>> /\ res.verbos = <<>>
         /\ op = Mejoras => res.frases_clave = <<>>
    /\ (op \in PalabrasOps \cup {Mejoras} /\ ~IsBlank(args.texto) /\ ~args.nltk
          /\ args.nlp.kind # "raises") => res.kind = "dict"
    /\ (op = "wordChef.sentimiento_es" /\ ~IsBlank(args.texto)
          /\ args.clasificador.kind = "None") => NoResult(res)

\* ------------------------------------------------------ claims on the menus
\* The pass of the menu loop a step makes: what it added to the trace, the
\* selection it read (as the loop compares it, stripped), and what it did.
PasadaHecha == pc = "menu" /\ Len(console') > Len(console)
Nueva == SubSeq(console', Len(console) + 1, Len(console'))
Seleccion == strip(Nueva[2].what)
Hubo(evs) == \E i \in 1..Len(Nueva) : Nueva[i].ev \in evs
NadaHecho ==
  /\ ~Hubo({"solicitar_texto", "input_texto"})
  /\ ~Hubo({"run"})
  /\ calls' = calls /\ files' = files

\* C13: selecting option 0 ends the loop with no text requested, no analysis
\* run and no log entry written, and the loop ends only through option 0:
\* after any other selection the menu is shown again.
C13_SalirSoloConCero ==
  [][PasadaHecha =>
       IF Seleccion = <<"0">> THEN pc' = "exit" /\ NadaHecho
       ELSE pc' = "menu"]_vars

\* C14: every selection that is not one of '0'..'6' is rejected: 'Opcion no
\* valida' is printed, no text is requested, no operation runs, no log entry
\* is written, and the menu is shown again.
C14_SeleccionInvalida ==
  [][(PasadaHecha /\ Seleccion \notin {<<d>> : d \in {"0", "1", "2", "3", "4", "5", "6"}}) =>
       /\ \E i \in 1..Len(Nueva) : Nueva[i] = Ev("print", "Opcion no valida")
       /\ NadaHecho
       /\ pc' = "menu"]_vars

\* -------------------------------------------------- claims on test_logging
\* C15: the three registrar_patron calls of test_logging on wordChef's logger
\* complete without error and append three pattern entries ('Fechas',
\* 'Dinero', 'Correos', in that order) to the session file, after which the
\* completion message is printed.
C15_RegistrarPatronEnWordChef ==
  (pc = "done" /\ op = "test_logging") =>
    /\ res.kind # "raised"
    /\ Len(calls) = 3
    /\ \A i \in 1..3 : calls[i].method = "registrar_patron"
    /\ <<calls[1].tipo, calls[2].tipo, calls[3].tipo>> = <<"Fechas", "Dinero", "Correos">>
    /\ files[logger.filename] =
         write_header(logger.cls, 0)
           \o patron_lines(calls[1].time, "Fechas", encontrar_fechas(args.texto))
           \o patron_lines(calls[2].time, "Dinero", encontrar_dinero(args.texto))
           \o patron_lines(calls[3].time, "Correos", encontrar_correos(args.texto))
    /\ console # <<>> /\ console[Len(console)] = Msg("Logging completado!")

\* ---------------------------------------------------- claims on the windows
\* C20: every handler of both GUI classes pressed with an empty or
\* whitespace-only input box reports the problem to the user and finishes
\* without raising, without running the analysis and without writing a log
\* entry.
C20_CajaVacia ==
  [][(pc = "mainloop" /\ Len(console') > Len(console) /\ IsBlank(Nueva[2].what)) =>
       /\ Hubo({"showwarning"})
       /\ ~Hubo({"excepcion"})
       /\ ~Hubo({"run"})
       /\ calls' = calls /\ files' = files]_vars

\* ----------------------------------------- claims on the summary's sentences
\* The score resumen_simple gives sentence i of the call's text.
PuntajeDe(i) ==
  puntaje200(i, oraciones_de(args.texto, args.nlp)[i], args.nlp.kind = "doc")

ResumenHecho ==
  /\ pc = "done" /\ op = "wordChef.resumen_simple"
  /\ ~IsBlank(args.texto) /\ args.nlp.kind # "raises"

PuntajeFrase(p) ==
  LET scored == scored_phrases(args.nlp.doc, res.sustantivos)
  IN scored[CHOOSE i \in 1..Len(scored) : scored[i][1] = p][2]
LugarDe(p) == CHOOSE k \in 1..Len(res.frases_clave) : res.frases_clave[k][1] = p

\* C22: of two candidate phrases with the same frequency, the one with more
\* words gets a strictly higher score whatever their top-noun flags are, and
\* is ranked before the shorter one in frases_clave.
C22_MasPalabrasPrimero ==
  MejorasConDoc =>
    \A p, q \in Candidates(args) :
      (FreqOf(args, p) = FreqOf(args, q) /\ WordsOf(p) > WordsOf(q)) =>
        /\ PuntajeFrase(p) > PuntajeFrase(q)
        /\ q \in Reported(res) => (p \in Reported(res) /\ LugarDe(p) < LugarDe(q))

\* C22 witness: both phrases are reported, they have the same frequency, and
\* the shorter one holds a top noun while the longer one does not.
C22_Witness ==
  /\ MejorasConDoc
  /\ \E p, q \in Reported(res) :
       /\ FreqOf(args, p) = FreqOf(args, q) /\ WordsOf(p) > WordsOf(q)
       /\ ~HasTopNoun(res, p) /\ HasTopNoun(res, q)
       /\ LugarDe(p) < LugarDe(q)

\* ------------------------------------------------- claims on sentimiento_es
SentimientoHecho ==
  pc = "done" /\ op = "wordChef.sentimiento_es" /\ ~IsBlank(args.texto)

Contiene(etiqueta, c) == \E i \in 1..Len(etiqueta) : etiqueta[i] = c

\* C23: a label containing '1' or '2' gives 'Negativo', otherwise a label
\* containing '3' gives 'Neutral', otherwise 'Positivo'; and when the
\* classifier raises, the function returns ('Error', 0.0, message) and
\* nothing propagates.
C23_EtiquetaASentimiento ==
  SentimientoHecho =>
    /\ res.kind = "tuple"
    /\ args.clasificador.kind = "ok" =>
         res.sentimiento =
           CASE Contiene(args.clasificador.label, "1") \/ Contiene(args.clasificador.label, "2")
                  -> Msg("Negativo")
             [] OTHER -> IF Contiene(args.clasificador.label, "3") THEN Msg("Neutral")
                         ELSE Msg("Positivo")
    /\ args.clasificador.kind = "raises" =>
         /\ res.sentimiento = Msg("Error") /\ res.puntuacion = 0
         /\ res.etiqueta = Msg("str(e)")

\* C23 witness: a label that holds both a '1' and a '3' was mapped to
\* 'Negativo'.
C23_Witness ==
  /\ SentimientoHecho
  /\ args.clasificador.kind = "ok"
  /\ Contiene(args.clasificador.label, "1") /\ Contiene(args.clasificador.label, "3")
  /\ res.sentimiento = Msg("Negativo")

\* ------------------------------------------- claims on what the menu logs
\* The outcome r of an analysis is the empty-input outcome, the
\* missing-dependency outcome or an error outcome.
SinResultado(r) ==
  \/ r.kind = "None"
  \/ r.kind = "str" /\ r.value = Msg("Error: texto vacio.")
  \/ r.kind = "tuple" /\ r.sentimiento \in {Msg("Error: texto vacio."),
                                            Msg("Error: transformers no instalado."),
                                            Msg("Error")}

\* The text the pass asked for.
TextoPedido == Nueva[CHOOSE i \in 1..Len(Nueva) : Nueva[i].ev = "solicitar_texto"].what

\* C24: in the menu loop of wordChef.py an entry is logged only for an
\* operation that produced a result: when option 1, 3, 5 or 6 ends in the
\* empty-input, the missing-dependency or an error outcome, no entry is
\* appended and the outcome is not displayed as a result.
C24_SoloResultadosRegistrados ==
  [][(/\ PasadaHecha /\ args.programa = "wordChef"
      /\ Seleccion \in {<<"1">>, <<"3">>, <<"5">>, <<"6">>}
      /\ SinResultado(Analisis(Seleccion[1], TextoPedido, args.deps))) =>
       /\ calls' = calls /\ files' = files
       /\ \A i \in 1..Len(Nueva) : Nueva[i] # Ev("print", "resultado")]_vars

\* ------------------------------------------- claims on what cli.py lacks
\* The pass read one of '1'..'6' in the menu of cli.py.
PasadaCli ==
  /\ PasadaHecha /\ args.programa = "cli"
  /\ Seleccion \in {<<d>> : d \in {"1", "2", "3", "4", "5", "6"}}

\* The text the pass of cli.py read for its option.
TextoLeido == Nueva[CHOOSE i \in 1..Len(Nueva) : Nueva[i].ev = "input_texto"].what

\* The analysis returned something the option shows as its result.
ConResultado(k, r) ==
  /\ r.kind \notin {"raised", "None"}
  /\ ~(k = "6" /\ r.sentimiento = Msg("Error"))

Inicializadores == {"cargar_modelo_spacy", "inicializar_nltk", "inicializar_sentimiento"}

LlamadasA(f) == {i \in 1..Len(console) : console[i] = Ev("call", f)}

\* C26: in every run of menu_principal of wordChef.py each of
\* cargar_modelo_spacy, inicializar_nltk and inicializar_sentimiento is
\* called exactly once, before the first menu prompt, and never again
\* whatever options are chosen.
C26_InicializacionUnica ==
  (op = "menu_principal" /\ args.programa = "wordChef" /\ pc # "inicio") =>
    \A f \in Inicializadores :
      /\ Cardinality(LlamadasA(f)) = 1
      /\ \A i \in LlamadasA(f), j \in 1..Len(console) : console[j].ev = "menu" => i < j

\* C26 witness: two options were chosen, an analysis ran, and the loop is
\* still on.
C26_Witness ==
  /\ op = "menu_principal" /\ args.programa = "wordChef" /\ pc = "menu"
  /\ Pasadas = 2
  /\ \E i \in 1..Len(console) : console[i].ev = "run"
  /\ \A f \in Inicializadores : Cardinality(LlamadasA(f)) = 1

\* ----------------------------------------------- claims on obtener_texto
\* Round k of the trace: the place of its "modo" event.
RondaEn(k) ==
  CHOOSE i \in 1..Len(console) :
    /\ console[i].ev = "modo"
    /\ Cardinality({j \in 1..i : console[j].ev = "modo"}) = k

\* Round k got a text: '1' was typed, or '2' and a file that could be read.
RondaLograda(k) ==
  LET i == RondaEn(k)
  IN \/ strip(console[i].what) = <<"1">>
     \/ strip(console[i].what) = <<"2">> /\ console[i + 1].what.kind = "file"

Ultimo == console[Len(console)]

\* What obtener_texto does at every point of a call.
ObtenerTextoBien ==
  /\ pc # "raised"
  /\ Rondas <= MaxRondas
  /\ Cardinality({i \in 1..Len(console) : console[i].ev = "input_final"}) <= 1
  /\ pc = "obtener_texto" => \A k \in 1..Rondas : ~RondaLograda(k)
  /\ pc = "done" =>
       /\ res.kind = "str"
       /\ \A k \in 1..(Rondas - 1) : ~RondaLograda(k)
       /\ \/ /\ Ultimo.ev = "input_final" /\ res.value = Ultimo.what
             /\ Rondas = MaxRondas /\ ~RondaLograda(MaxRondas)
          \/ /\ Ultimo.ev = "input_texto" /\ res.value = Ultimo.what
             /\ RondaLograda(Rondas)
          \/ /\ Ultimo.ev = "input_ruta" /\ res.value = Ultimo.what.content
             /\ RondaLograda(Rondas)

\* C27: obtener_texto always terminates and returns a string: it shows the
\* selection at most 3 times, returns at once on a manual entry or a file
\* that was read, and after 3 unsuccessful rounds asks once for the text and
\* returns what is typed; leer_archivo returns None and never raises for a
\* missing or unreadable path.
C27_ObtenerTextoTermina == []ObtenerTextoBien /\ <>(pc = "done")

\* C27 witness: three unsuccessful rounds, one for a missing path, one for
\* an unreadable file and one for an invalid choice, then the text typed at
\* the last prompt was returned.
C27_Witness ==
  /\ op = "obtener_texto" /\ pc = "done" /\ Rondas = MaxRondas
  /\ Ultimo.ev = "input_final" /\ res = Str(Ultimo.what)
  /\ \E i, j, k \in 1..Len(console) :
       /\ console[i].ev = "input_ruta" /\ console[i].what.kind = "missing"
       /\ console[j].ev = "input_ruta" /\ console[j].what.kind = "unreadable"
       /\ console[k] = Ev("print", "Opcion no valida")

\* The records the calls made so far on the instances that write the file f
\* should have left in it: one per call, in the order of the calls.
RECURSIVE LineasDe(_, _)
LineasDe(cs, f) ==
  IF cs = <<>> THEN <<>>
  ELSE (IF sessions[Head(cs).session].filename = f
        THEN logging_line(Head(cs).time, Head(cs).level, Head(cs).action,
                          Head(cs).snippet, Head(cs).result)
        ELSE <<>>) \o LineasDe(Tail(cs), f)

\* C28: however many logging-based SessionLogger instances were constructed,
\* every named logger carries at most one file handler, and every session
\* file holds exactly one line for each log or error call made on an
\* instance of that file, never a duplicated line.
C28_UnSoloHandler ==
  pc = "logging" =>
    /\ \A n \in DOMAIN handlers : Len(handlers[n]) <= 1
    /\ \A f \in DOMAIN files : files[f] = LineasDe(calls, f)

\* Two instances were constructed in the same second and the second of them
\* has logged.
C28_Witness ==
  /\ pc = "logging" /\ Len(sessions) >= 2
  /\ sessions[1].name = sessions[2].name
  /\ \E k \in 1..Len(calls) : calls[k].session = 2

\* normalizador_texto returned its dict.
NormalizadoHecho ==
  pc = "done" /\ op = "wordChef.normalizador_texto" /\ res.kind = "dict"

\* The words ps with every run of words equal ignoring case reduced to its
\* first word: the second word of an equal pair is dropped until none is left.
RECURSIVE PrimerosDeRachas(_)
PrimerosDeRachas(ps) ==
  IF Len(ps) <= 1 THEN ps
  ELSE IF lower(ps[1]) = lower(ps[2])
  THEN PrimerosDeRachas(<<ps[1]>> \o Tail(Tail(ps)))
  ELSE <<ps[1]>> \o PrimerosDeRachas(Tail(ps))

\* C29: the sin_repeticiones output of normalizador_texto has no two adjacent
\* words equal ignoring case, is made of the first word of every run of
\* repeated words of the input, and the same repetition removal applied to
\* it leaves it unchanged.
C29_SinRepeticiones ==
  NormalizadoHecho =>
    LET salida == split(res.sin_repeticiones)
    IN /\ \A i \in 1..(Len(salida) - 1) : lower(salida[i]) # lower(salida[i + 1])
       /\ salida = PrimerosDeRachas(split(args.texto))
       /\ sin_repeticiones(res.sin_repeticiones) = res.sin_repeticiones

\* The input had a word followed by the same word in another case, and the
\* output is shorter than the input.
C29_Witness ==
  /\ NormalizadoHecho
  /\ Len(split(res.sin_repeticiones)) < Len(split(args.texto))
  /\ \E i \in 1..(Len(split(args.texto)) - 1) :
       /\ split(args.texto)[i] # split(args.texto)[i + 1]
       /\ lower(split(args.texto)[i]) = lower(split(args.texto)[i + 1])

==============================================================================
